---- MODULE Spec2Model ----
(***************************************************************************)
(* Model of the audio-to-JSON pipeline of pronunciation-clips:             *)
(* Entity validation (shared/models.py), entity creation and quality       *)
(* filtering (audio_to_json/entity_creation.py), transcription             *)
(* (audio_to_json/transcription.py), the pipeline (audio_to_json/          *)
(* pipeline.py) and the database writer (audio_to_json/database_writer.py),*)
(* the speaker mapper (audio_to_json/speaker_identification.py) and the    *)
(* diarization processor (audio_to_json/diarization.py).  Each component   *)
(* has its own specification (SpecCreate, SpecFilter, SpecSyllables, ...); *)
(* the variables of the components that are not running stay idle.         *)
(*                                                                         *)
(* Units.  Times and durations are integers in milliseconds, confidences   *)
(* are integers in hundredths (100 = 1.0) and quality scores are integers  *)
(* in thousandths (1000 = 1.0); float rounding is outside the model.       *)
(* A text is a sequence of one-character strings.                          *)
(***************************************************************************)
EXTENDS Integers, Sequences, FiniteSets, TLC

VARIABLES
    ctor_args,      \* Entity(...): the keyword arguments of the pending construction (0 or 1 record)
    ctor_result,    \* Entity(...): "pending", "ok" or "ValidationError"
    ce_words,       \* create_entities: the words argument
    ce_mapping,     \* create_entities: the speaker_mapping argument (<<>> models None / empty dict)
    ce_i,           \* create_entities: 0-based index of the next word of the loop
    ce_entities,    \* create_entities: the entities list built so far
    ce_attempts,    \* create_entities: entity_id generated for each word visited (line 55)
    ce_warnings,    \* create_entities: word_index of each logged warning
    ce_pc,          \* create_entities: "idle", "loop" or "returned"
    qf_config,      \* apply_quality_filters: the QualityConfig
    qf_entities,    \* apply_quality_filters: the entities argument
    qf_i,           \* apply_quality_filters: number of entities visited by the loop
    qf_filtered,    \* apply_quality_filters: filtered_entities built so far
    qf_pc,          \* apply_quality_filters: "idle", "loop" or "returned"
    fs,             \* file system: content at the output path, the temp path and the backup path
    fs_initial,     \* content at the output path before write_database was called
    wr_backup_on_update, \* config.output.backup_on_update
    wr_db,          \* write_database: what dumping the database gives ("new", "invalid" or "unserializable")
    wr_backup_path, \* write_database: backup_path is not None
    wr_exc,         \* write_database: the exception in flight or raised (<<>> when none)
    wr_pc,          \* write_database: position in the method
    pl_resume,      \* process_audio_to_json: resume_from_stage ("none" models None)
    pl_output_given,\* process_audio_to_json: output_path is given
    pl_impl,        \* TranscriptionEngine._use_faster_whisper: "faster" or "openai"
    pl_raw,         \* the word hypotheses the speech engine yields for the audio
    pl_words,       \* process_audio_to_json: words returned by transcribe_audio
    pl_stages,      \* the stages called so far, in order
    pl_database,    \* process_audio_to_json: the database built (0 or 1), returned at the end
    pl_stage_exc,   \* the exception that reached the except clause of line 123 (0 or 1)
    pl_raised,      \* the exception raised to the caller (0 or 1)
    pl_pc,          \* process_audio_to_json: position in the method
    rt_entities,    \* JSON round trip: database.entities handed to _write_json_file
    rt_pretty,      \* JSON round trip: config.output.pretty_print
    rt_file,        \* JSON round trip: the bytes of the written file (0 or 1 byte sequence)
    rt_loaded,      \* JSON round trip: the entities of WordDatabase.model_validate(json.load(f)) (0 or 1 list)
    rt_pc,          \* JSON round trip: "idle", "write", "validate", "valid" or "error"
    sr_word,        \* speaker resolution: <<start_time, end_time>> of the word
    sr_diarization, \* speaker resolution: the diarization result the caller holds (0 or 1 segment list)
    sr_mapping,     \* speaker resolution: the speaker_mapping argument
    sr_result,      \* speaker resolution: the value returned (0 or 1)
    sr_pc,          \* speaker resolution: "idle", "call", "returned" or "raised"
    sm_heap,        \* apply_speaker_mapping: the Entity objects, by address
    sm_entities,    \* apply_speaker_mapping: the entities argument (addresses of the caller's objects)
    sm_given,       \* apply_speaker_mapping: the values of the caller's entities when the call was made
    sm_mapping,     \* apply_speaker_mapping: the speaker_mapping argument
    sm_updated,     \* apply_speaker_mapping: updated_entities (addresses)
    sm_i,           \* _apply_list_mapping / _apply_dict_mapping: 1-based index of the next entity of the loop
    sm_speaker_map, \* the keys of speaker_map
    sm_warnings,    \* number of "Invalid time range format" warnings logged
    sm_pc,          \* apply_speaker_mapping: "idle", "call", "list", "dict", "returned" or "raised"
    sb_entities,    \* _apply_smart_buffering: database.entities
    sb_given,       \* _apply_smart_buffering: database.entities when the call was made
    sb_sorted,      \* _apply_smart_buffering: sorted_entities
    sb_i,           \* _apply_smart_buffering: the loop index i (0-based)
    sb_counts,      \* _apply_smart_buffering: zero_gap_count and overlap_count
    sb_classes,     \* the branch taken for each pair visited: "zero_gap", "overlap" or "normal"
    sb_warnings,    \* the "Word overlap detected" warnings: the pair index of each
    sb_result,      \* _apply_smart_buffering: the entities of the database returned (0 or 1 list)
    sb_pc,          \* _apply_smart_buffering: "idle", "sort", "loop" or "returned"
    dz_env,         \* process_audio: what the call meets (file, dependency, model load, model output, clock)
    dz_audio_duration, \* process_audio: the audio_duration argument
    dz_candidate,   \* process_audio: the DiarizationResult of line 89 (0 or 1)
    dz_errors,      \* process_audio: the kinds of error met so far
    dz_substituted, \* process_audio: _create_single_speaker_fallback was called
    dz_result,      \* process_audio: the DiarizationResult returned (0 or 1)
    dz_pc,          \* process_audio: position in the method
    vr_result,      \* _validate_result: the result argument
    vr_expected_duration, \* _validate_result: the expected_duration argument
    vr_verdict,     \* _validate_result: the value returned (0 or 1)
    vr_pc,          \* _validate_result: "idle", "call" or "returned"
    qs_confidence,  \* _calculate_quality_score: word_data.confidence
    qs_duration,    \* _calculate_quality_score: the duration argument
    qs_syllables,   \* _calculate_quality_score: the syllables argument
    qs_score,       \* _calculate_quality_score: the value returned (0 or 1)
    qs_pc,          \* _calculate_quality_score: "idle", "call" or "returned"
    sy_text,        \* _estimate_syllables: the text argument
    sy_syllables,   \* _estimate_syllables: the list returned (0 or 1)
    sy_pc,          \* _estimate_syllables: "idle", "call" or "returned"
    rf_config,      \* filtering twice: the QualityConfig of both calls
    rf_entities,    \* filtering twice: the entities handed to the first call
    rf_first,       \* filtering twice: the list the first call returned (0 or 1)
    rf_second,      \* filtering twice: the list the second call returned (0 or 1)
    rf_pc,          \* filtering twice: "idle", "first", "second" or "done"
    sc_words,       \* create then filter: the words handed to create_entities
    sc_config,      \* create then filter: the QualityConfig
    sc_entities,    \* create then filter: the list create_entities returned (0 or 1)
    sc_filtered,    \* create then filter: the list apply_quality_filters returned (0 or 1)
    sc_pc,          \* create then filter: "idle", "create", "filter" or "done"
    mg_segments,    \* _merge_close_segments: the segments argument
    mg_merged,      \* _merge_close_segments: the list returned (0 or 1)
    mg_pc           \* _merge_close_segments: "idle", "call" or "returned"

ctorVars == <<ctor_args, ctor_result>>
ceVars   == <<ce_words, ce_mapping, ce_i, ce_entities, ce_attempts, ce_warnings, ce_pc>>

qfVars   == <<qf_config, qf_entities, qf_i, qf_filtered, qf_pc>>

wrVars   == <<fs, fs_initial, wr_backup_on_update, wr_db, wr_backup_path, wr_exc, wr_pc>>

plVars   == <<pl_resume, pl_output_given, pl_impl, pl_raw, pl_words, pl_stages,
             pl_database, pl_stage_exc, pl_raised, pl_pc>>

rtVars   == <<rt_entities, rt_pretty, rt_file, rt_loaded, rt_pc>>

srVars   == <<sr_word, sr_diarization, sr_mapping, sr_result, sr_pc>>

\* the components added after the pipeline and the writer
smVars   == <<sm_heap, sm_entities, sm_given, sm_mapping, sm_updated, sm_i, sm_speaker_map,
             sm_warnings, sm_pc>>

sbVars   == <<sb_entities, sb_given, sb_sorted, sb_i, sb_counts, sb_classes, sb_warnings,
             sb_result, sb_pc>>

dzVars   == <<dz_env, dz_audio_duration, dz_candidate, dz_errors, dz_substituted, dz_result, dz_pc>>

vrVars   == <<vr_result, vr_expected_duration, vr_verdict, vr_pc>>

qsVars   == <<qs_confidence, qs_duration, qs_syllables, qs_score, qs_pc>>

syVars   == <<sy_text, sy_syllables, sy_pc>>

rfVars   == <<rf_config, rf_entities, rf_first, rf_second, rf_pc>>

scVars   == <<sc_words, sc_config, sc_entities, sc_filtered, sc_pc>>

mgVars   == <<mg_segments, mg_merged, mg_pc>>

lateVars == <<qsVars, syVars, rfVars, scVars, mgVars>>

newVars  == <<rtVars, srVars, smVars, sbVars, dzVars, vrVars, lateVars>>

vars == <<ctorVars, ceVars, qfVars, wrVars, plVars, newVars>>

----------------------------------------------------------------------------
(* Bounds of the model *)

MaxWords == 2
MaxEntities == 2
MaxPairs == 2       \* consecutive pairs of entities handed to _apply_smart_buffering
MaxSegments == 5    \* segments of a DiarizationResult handed to _validate_result

----------------------------------------------------------------------------
(* Text helpers: str.strip(), str.lower() *)

Whitespace == {" "}

LowerChar(c) ==
    CASE c = "T" -> "t" [] c = "A" -> "a" [] c = "L" -> "l" [] c = "Q" -> "q"
      [] c = "U" -> "u" [] c = "E" -> "e" [] c = "H" -> "h" [] c = "O" -> "o"
      [] OTHER -> c

Lower(text) == [k \in 1..Len(text) |-> LowerChar(text[k])]

RECURSIVE LStrip(_)
LStrip(text) ==
    IF text # <<>> /\ Head(text) \in Whitespace THEN LStrip(Tail(text)) ELSE text

RECURSIVE RStrip(_)
RStrip(text) ==
    IF text # <<>> /\ text[Len(text)] \in Whitespace
    THEN RStrip(SubSeq(text, 1, Len(text) - 1))
    ELSE text

Strip(text) == RStrip(LStrip(text))

----------------------------------------------------------------------------
(* EntityCreator._estimate_syllables *)

vowels == {"a", "e", "i", "o", "u", "á", "é", "í", "ó", "ú", "ü"}

diphthongs ==
    { <<"a","i">>, <<"a","u">>, <<"e","i">>, <<"e","u">>, <<"o","i">>, <<"o","u">>,
      <<"i","a">>, <<"i","e">>, <<"i","o">>, <<"i","u">>,
      <<"u","a">>, <<"u","e">>, <<"u","i">>, <<"u","o">> }

\* the loop without lines 231-236: the characters after the last syllable are dropped
RECURSIVE SyllableLoopDropsRemainder(_, _, _, _)
SyllableLoopDropsRemainder(text, i, syllables, current_syllable) ==
    IF i > Len(text)
    THEN syllables
    ELSE LET char == text[i]
             cur1 == Append(current_syllable, char)
         IN  IF char \in vowels
             THEN LET dip  == /\ i + 1 <= Len(text)
                              /\ text[i + 1] \in vowels
                              /\ <<char, text[i + 1]>> \in diphthongs
                      i2   == IF dip THEN i + 1 ELSE i
                      cur2 == IF dip THEN Append(cur1, text[i + 1]) ELSE cur1
                      cons == i2 + 1 <= Len(text) /\ text[i2 + 1] \notin vowels
                      i3   == IF cons THEN i2 + 1 ELSE i2
                      cur3 == IF cons THEN Append(cur2, text[i2 + 1]) ELSE cur2
                  IN  SyllableLoopDropsRemainder(text, i3 + 1, Append(syllables, cur3), <<>>)
             ELSE SyllableLoopDropsRemainder(text, i + 1, syllables, cur1)

\* the loop with lines 226-227 inside the `if` of line 222: a syllable is
\* closed only when a consonant follows its vowel
RECURSIVE SyllableLoopOpenSyllables(_, _, _, _)
SyllableLoopOpenSyllables(text, i, syllables, current_syllable) ==
    IF i > Len(text)
    THEN IF current_syllable # <<>>
         THEN IF syllables # <<>>
              THEN [syllables EXCEPT ![Len(syllables)] = @ \o current_syllable]
              ELSE <<current_syllable>>
         ELSE syllables
    ELSE LET char == text[i]
             cur1 == Append(current_syllable, char)
         IN  IF char \in vowels
             THEN LET dip  == /\ i + 1 <= Len(text)
                              /\ text[i + 1] \in vowels
                              /\ <<char, text[i + 1]>> \in diphthongs
                      i2   == IF dip THEN i + 1 ELSE i
                      cur2 == IF dip THEN Append(cur1, text[i + 1]) ELSE cur1
                      cons == i2 + 1 <= Len(text) /\ text[i2 + 1] \notin vowels
                  IN  IF cons
                      THEN SyllableLoopOpenSyllables(text, i2 + 2,
                               Append(syllables, Append(cur2, text[i2 + 1])), <<>>)
                      ELSE SyllableLoopOpenSyllables(text, i2 + 1, syllables, cur2)
             ELSE SyllableLoopOpenSyllables(text, i + 1, syllables, cur1)

\* The while loop of lines 207-229; i is 1-based here, 0-based in the source.
RECURSIVE SyllableLoop(_, _, _, _)
SyllableLoop(text, i, syllables, current_syllable) ==
    IF i > Len(text)
    THEN \* lines 231-236: add any remaining characters
         IF current_syllable # <<>>
         THEN IF syllables # <<>>
              THEN [syllables EXCEPT ![Len(syllables)] = @ \o current_syllable]
              ELSE <<current_syllable>>
         ELSE syllables
    ELSE LET char == text[i]
             cur1 == Append(current_syllable, char)
         IN  IF char \in vowels
             THEN LET dip  == /\ i + 1 <= Len(text)
                              /\ text[i + 1] \in vowels
                              /\ <<char, text[i + 1]>> \in diphthongs
                      i2   == IF dip THEN i + 1 ELSE i
                      cur2 == IF dip THEN Append(cur1, text[i + 1]) ELSE cur1
                      cons == i2 + 1 <= Len(text) /\ text[i2 + 1] \notin vowels
                      i3   == IF cons THEN i2 + 1 ELSE i2
                      cur3 == IF cons THEN Append(cur2, text[i2 + 1]) ELSE cur2
                  IN  SyllableLoop(text, i3 + 1, Append(syllables, cur3), <<>>)
             ELSE SyllableLoop(text, i + 1, syllables, cur1)

\* the estimator without lines 231-240: only the syllables closed at a vowel
EstimateSyllablesClosedOnly(raw) ==
    LET text == Strip(Lower(raw))
    IN  IF text = <<>> THEN <<>>
        ELSE IF text = <<"t", "a", "l">> THEN << <<"t", "a", "l">> >>
        ELSE SyllableLoopDropsRemainder(text, 1, <<>>, <<>>)

_estimate_syllables(raw) ==
    LET text == Strip(Lower(raw))
    IN  IF text = <<>> THEN <<>>
        ELSE IF text = <<"t", "a", "l">> THEN << <<"t", "a", "l">> >>
        ELSE LET syllables == SyllableLoop(text, 1, <<>>, <<>>)
             IN  IF syllables = <<>> THEN <<text>> ELSE syllables

----------------------------------------------------------------------------
(* EntityCreator._calculate_quality_score *)

Min(a, b) == IF a < b THEN a ELSE b
Max(a, b) == IF a > b THEN a ELSE b

\* the weighted average returned without min(1.0, max(0.0, ...))
QualityScoreUnclamped(confidence, duration, syllables) ==
    LET duration_score == IF duration < 200 THEN 5
                          ELSE IF duration > 2000 THEN 7 ELSE 10
        syllable_count == Len(syllables)
        syllable_score == IF syllable_count = 1 THEN 6
                          ELSE IF syllable_count > 5 THEN 8 ELSE 10
    IN  confidence * 6 + duration_score * 20 + syllable_score * 20

\* duration_score and syllable_score in tenths, the result in thousandths
_calculate_quality_score(confidence, duration, syllables) ==
    LET duration_score == IF duration < 200 THEN 5
                          ELSE IF duration > 2000 THEN 7 ELSE 10
        syllable_count == Len(syllables)
        syllable_score == IF syllable_count = 1 THEN 6
                          ELSE IF syllable_count > 5 THEN 8 ELSE 10
        quality_score  == confidence * 6 + duration_score * 20 + syllable_score * 20
    IN  Min(1000, Max(0, quality_score))

----------------------------------------------------------------------------
(* shared/models.py: Entity *)

\* A speaker id is a Python value: an int or a str.
IntVal(n) == [kind |-> "int", n |-> n]
StrVal(n) == [kind |-> "str", n |-> n]    \* the string "speaker_<n>"

ToleranceMs == 1

\* The field constraints and validators of Entity.  pydantic (v2, lax mode)
\* accepts an int for a float field but not an int for a str field.
EntityValidNoChecks(a) == TRUE

EntityValidLooseTolerance(a) ==
    /\ a.start_time >= 0
    /\ a.end_time >= 0
    /\ a.duration >= 0
    /\ a.end_time > a.start_time
    /\ LET expected_duration == a.end_time - a.start_time
           diff == IF a.duration >= expected_duration
                   THEN a.duration - expected_duration
                   ELSE expected_duration - a.duration
       IN  ~ (diff > ToleranceMs + 1)
    /\ a.confidence >= 0 /\ a.confidence <= 100
    /\ a.probability >= 0 /\ a.probability <= 100
    /\ a.syllable_count >= 0
    /\ a.syllable_count = Len(a.syllables)
    /\ a.quality_score >= 0 /\ a.quality_score <= 1000
    /\ a.entity_type \in {"word", "sentence", "phrase"}
    /\ a.speaker_id.kind = "str"

EntityValid(a) ==
    /\ a.start_time >= 0                                   \* ge=0.0
    /\ a.end_time >= 0                                     \* ge=0.0
    /\ a.duration >= 0                                     \* ge=0.0
    /\ ~ (a.end_time <= a.start_time)                      \* end_time_after_start
    /\ LET expected_duration == a.end_time - a.start_time  \* duration_matches_times
           diff == IF a.duration >= expected_duration
                   THEN a.duration - expected_duration
                   ELSE expected_duration - a.duration
       IN  ~ (diff > ToleranceMs)
    /\ a.confidence >= 0 /\ a.confidence <= 100            \* ge=0.0, le=1.0
    /\ a.probability >= 0 /\ a.probability <= 100          \* ge=0.0, le=1.0
    /\ a.syllable_count >= 0                               \* ge=0
    /\ a.syllable_count = Len(a.syllables)                 \* syllable_count_matches_syllables
    /\ a.quality_score >= 0 /\ a.quality_score <= 1000     \* ge=0.0, le=1.0
    /\ a.entity_type \in {"word", "sentence", "phrase"}    \* validate_entity_type
    /\ a.speaker_id.kind = "str"                           \* speaker_id: str

\* Entity(**a): the constructor returns the object or raises ValidationError.
EntityConstruct(a) == IF EntityValid(a) THEN "ok" ELSE "ValidationError"

----------------------------------------------------------------------------
(* EntityCreator._get_speaker_id *)

\* speaker_mapping is a dict "start-end" -> speaker; an entry of the model is
\* [key_ok, range_start, range_end, val_ok, val]: key_ok is FALSE for a key
\* that map(float, key.split("-")) rejects, val_ok is FALSE for a value
\* int() rejects, val is the integer of "N" or "speaker_N".
RECURSIVE SpeakerLoopStr(_, _, _)
SpeakerLoopStr(start_time, end_time, speaker_mapping) ==
    IF speaker_mapping = <<>> THEN StrVal(0)
    ELSE LET m == Head(speaker_mapping)
         IN  IF /\ m.key_ok
                /\ 2 * m.range_start <= start_time + end_time
                /\ start_time + end_time <= 2 * m.range_end
                /\ m.val_ok
             THEN StrVal(m.val)
             ELSE SpeakerLoopStr(start_time, end_time, Tail(speaker_mapping))

RECURSIVE SpeakerLoop(_, _, _)
SpeakerLoop(start_time, end_time, speaker_mapping) ==
    IF speaker_mapping = <<>> THEN IntVal(0)                 \* line 186 (and line 170)
    ELSE LET m == Head(speaker_mapping)
         IN  IF /\ m.key_ok                                  \* line 177
                /\ 2 * m.range_start <= start_time + end_time   \* line 178: word_center
                /\ start_time + end_time <= 2 * m.range_end
                /\ m.val_ok                                  \* lines 181-182: int(...)
             THEN IntVal(m.val)
             ELSE SpeakerLoop(start_time, end_time, Tail(speaker_mapping))

GetSpeakerIdAsStr(start_time, end_time, speaker_mapping) ==
    SpeakerLoopStr(start_time, end_time, speaker_mapping)

_get_speaker_id(start_time, end_time, speaker_mapping) ==
    SpeakerLoop(start_time, end_time, speaker_mapping)

----------------------------------------------------------------------------
(* EntityCreator.create_entities *)

\* f"{n:03d}": the decimal digits of n, zero-padded on the left to width 3
RECURSIVE Digits(_)
Digits(n) == IF n < 10 THEN <<n>> ELSE Append(Digits(n \div 10), n % 10)

RECURSIVE ZeroPad(_, _)
ZeroPad(ds, width) == IF Len(ds) >= width THEN ds ELSE ZeroPad(<<0>> \o ds, width)

EntityIdOffByOne(i) == [prefix |-> "word_", digits |-> ZeroPad(Digits(i), 3)]

EntityId(i) == [prefix |-> "word_", digits |-> ZeroPad(Digits(i + 1), 3)]

\* The keyword arguments of lines 70-90 for the word at 0-based index i.
EntityArgs(i, word_data, speaker_mapping) ==
    LET start_time == word_data.start_time
        end_time   == word_data.end_time
        duration   == end_time - start_time
        text       == Strip(word_data.text)
        syllables  == _estimate_syllables(text)
    IN  [ entity_id      |-> EntityId(i),
          entity_type    |-> "word",
          text           |-> text,
          start_time     |-> start_time,
          end_time       |-> end_time,
          duration       |-> duration,
          confidence     |-> word_data.confidence,
          probability    |-> word_data.confidence,
          syllables      |-> syllables,
          syllable_count |-> Len(syllables),
          quality_score  |-> _calculate_quality_score(word_data.confidence, duration, syllables),
          speaker_id     |-> _get_speaker_id(start_time, end_time, speaker_mapping),
          processed      |-> FALSE ]

\* One iteration of the loop body (lines 53-99): TRUE when the entity is
\* appended, FALSE when an exception is caught, a warning logged and the
\* word skipped.  float(word_data.start_time) raises when the value is not
\* a number (start_ok = FALSE).
WordAccepted(i, word_data, speaker_mapping) ==
    /\ word_data.start_ok
    /\ EntityConstruct(EntityArgs(i, word_data, speaker_mapping)) = "ok"

\* create_entities as a function of its arguments (the loop run to its end)
RECURSIVE CreateEntitiesFrom(_, _, _)
CreateEntitiesFrom(words, i, speaker_mapping) ==
    IF i >= Len(words) THEN <<>>
    ELSE (IF WordAccepted(i, words[i + 1], speaker_mapping)
          THEN <<EntityArgs(i, words[i + 1], speaker_mapping)>>
          ELSE <<>>) \o CreateEntitiesFrom(words, i + 1, speaker_mapping)

create_entities(words, speaker_mapping) == CreateEntitiesFrom(words, 0, speaker_mapping)

----------------------------------------------------------------------------
(* Inputs *)

T_hola  == <<"h", "o", "l", "a">>
T_tal   == <<"t", "a", "l">>
T_Tal   == <<"T", "a", "l">>
T_que   == <<"q", "u", "e">>
T_x     == <<"x">>
T_empty == <<>>
T_blank == <<" ">>
T_padded == <<" ", "h", "o", "l", "a", " ">>

\* Word hypotheses handed to create_entities: a valid word, and words with
\* empty or blank text, end_time <= start_time, a negative start_time, a
\* confidence outside [0,1], or a start_time that is not a number.
WordTimes == { <<0, 500>>, <<500, 500>>, <<1000, 500>>, <<-100, 400>> }

WordDomain ==
    { [text |-> t, start_ok |-> TRUE, start_time |-> tm[1], end_time |-> tm[2], confidence |-> c] :
        t \in {T_padded, T_empty, T_blank}, tm \in WordTimes, c \in {90, 150, -50} }
    \cup { [text |-> T_hola, start_ok |-> FALSE, start_time |-> 0, end_time |-> 1000, confidence |-> 80] }

SeqsUpTo(S, n) == UNION { [1..k -> S] : k \in 0..n }

MappingDomain ==
    { <<>>,
      << [key_ok |-> FALSE, range_start |-> 0, range_end |-> 0, val_ok |-> TRUE, val |-> 7],
         [key_ok |-> TRUE, range_start |-> 0, range_end |-> 250, val_ok |-> TRUE, val |-> 1] >> }

\* Keyword arguments handed directly to Entity(...)
CtorDomain ==
    { [ entity_id |-> EntityId(0), entity_type |-> "word", text |-> T_hola,
        start_time |-> s, end_time |-> e, duration |-> (e - s) + d,
        confidence |-> c, probability |-> c,
        syllables |-> syl, syllable_count |-> n, quality_score |-> 800,
        speaker_id |-> spk, processed |-> FALSE ] :
        s \in {0, 500}, e \in {0, 500, 1000}, d \in {-2, -1, 0, 1, 2},
        c \in {90, 150}, syl \in { <<>>, << <<"h","o">>, <<"l","a">> >> },
        n \in {0, 1, 2}, spk \in {StrVal(0), IntVal(0)} }

----------------------------------------------------------------------------
(* Entity(...) *)

CtorIdle == ctor_args = <<>> /\ ctor_result = "idle"

InitEntity ==
    /\ \E a \in CtorDomain : ctor_args = <<a>>
    /\ ctor_result = "pending"

\* Entity(**ctor_args)
Construct ==
    /\ ctor_result = "pending"
    /\ ctor_result' = EntityConstruct(ctor_args[1])
    /\ UNCHANGED <<ctor_args, ceVars, qfVars, wrVars, plVars, newVars>>

----------------------------------------------------------------------------
(* EntityCreator.create_entities, one loop iteration per step *)

CeIdle ==
    /\ ce_words = <<>> /\ ce_mapping = <<>> /\ ce_i = 0 /\ ce_entities = <<>>
    /\ ce_attempts = <<>> /\ ce_warnings = <<>> /\ ce_pc = "idle"

InitCreate ==
    /\ ce_words \in SeqsUpTo(WordDomain, MaxWords)
    /\ ce_mapping \in MappingDomain
    /\ ce_i = 0 /\ ce_entities = <<>> /\ ce_attempts = <<>> /\ ce_warnings = <<>>
    /\ ce_pc = "loop"

\* lines 52-99, one iteration: the word at index ce_i yields an entity
\* (line 92), or an exception is caught, a warning logged and the word
\* skipped (lines 94-99)
CreateEntityStep ==
    /\ ce_pc = "loop" /\ ce_i < Len(ce_words)
    /\ LET word_data == ce_words[ce_i + 1]
       IN  IF WordAccepted(ce_i, word_data, ce_mapping)
           THEN /\ ce_entities' = Append(ce_entities, EntityArgs(ce_i, word_data, ce_mapping))
                /\ ce_warnings' = ce_warnings
           ELSE /\ ce_warnings' = Append(ce_warnings, ce_i)
                /\ ce_entities' = ce_entities
    /\ ce_attempts' = Append(ce_attempts, EntityId(ce_i))
    /\ ce_i' = ce_i + 1
    /\ UNCHANGED <<ce_words, ce_mapping, ce_pc, ctorVars, qfVars, wrVars, plVars, newVars>>

\* lines 101-105: return entities
CreateEntitiesReturn ==
    /\ ce_pc = "loop" /\ ce_i >= Len(ce_words)
    /\ ce_pc' = "returned"
    /\ UNCHANGED <<ce_words, ce_mapping, ce_i, ce_entities, ce_attempts, ce_warnings, ctorVars, qfVars, wrVars, plVars, newVars>>

----------------------------------------------------------------------------
(* EntityCreator.apply_quality_filters *)

DefaultQuality ==
    [min_confidence |-> 80, min_word_duration |-> 300, max_word_duration |-> 3000,
     syllable_range |-> <<2, 6>>]

QualityDomain ==
    { DefaultQuality,
      [min_confidence |-> 50, min_word_duration |-> 200, max_word_duration |-> 1000,
       syllable_range |-> <<2, 4>>] }

syllable_exceptions == { T_tal, T_que, <<"c","o","n">>, <<"p","o","r">>, <<"s","i","n">>, <<"s","o","n">> }

\* The loop body of lines 128-150: TRUE when the entity is appended.
KeepsIgnoringExceptions(entity, quality_config) ==
    /\ ~ (entity.confidence < quality_config.min_confidence)
    /\ ~ (entity.duration < quality_config.min_word_duration)
    /\ ~ (entity.duration > quality_config.max_word_duration)
    /\ quality_config.syllable_range[1] <= entity.syllable_count
    /\ entity.syllable_count <= quality_config.syllable_range[2]
    /\ ~ (entity.text = <<>> \/ Len(Strip(entity.text)) = 0)

Keeps(entity, quality_config) ==
    /\ ~ (entity.confidence < quality_config.min_confidence)            \* lines 130-131
    /\ ~ (entity.duration < quality_config.min_word_duration)           \* lines 134-135
    /\ ~ (entity.duration > quality_config.max_word_duration)           \* lines 136-137
    /\ LET min_syl == quality_config.syllable_range[1]                  \* lines 140-144
           max_syl == quality_config.syllable_range[2]
       IN  ~ (min_syl <= entity.syllable_count /\ entity.syllable_count <= max_syl)
               => ~ (Lower(entity.text) \notin syllable_exceptions)
    /\ ~ (entity.text = <<>> \/ Len(Strip(entity.text)) = 0)            \* lines 147-148

\* Entities handed to the filter: each text with each combination of
\* confidence, duration and syllable count at, below and above the thresholds.
FilterCases ==
    { <<80, 300, 2>>, <<95, 3000, 6>>, <<79, 300, 2>>, <<80, 299, 2>>,
      <<80, 3001, 2>>, <<80, 300, 1>>, <<80, 300, 7>>, <<79, 299, 1>> }

FilterDomain ==
    { [ entity_id |-> EntityId(0), entity_type |-> "word", text |-> t,
        start_time |-> 0, end_time |-> c[2], duration |-> c[2],
        confidence |-> c[1], probability |-> c[1],
        syllables |-> [k \in 1..c[3] |-> <<"s">>], syllable_count |-> c[3],
        quality_score |-> 800, speaker_id |-> StrVal(0), processed |-> FALSE ] :
        t \in {T_tal, T_Tal, T_x, T_blank}, c \in FilterCases }

QfIdle ==
    /\ qf_config = DefaultQuality /\ qf_entities = <<>> /\ qf_i = 0
    /\ qf_filtered = <<>> /\ qf_pc = "idle"

InitFilter ==
    /\ qf_config \in QualityDomain
    /\ qf_entities \in SeqsUpTo(FilterDomain, MaxEntities)
    /\ qf_i = 0 /\ qf_filtered = <<>> /\ qf_pc = "loop"

\* lines 128-150, one iteration
FilterStep ==
    /\ qf_pc = "loop" /\ qf_i < Len(qf_entities)
    /\ LET entity == qf_entities[qf_i + 1]
       IN  qf_filtered' = IF Keeps(entity, qf_config)
                          THEN Append(qf_filtered, entity)
                          ELSE qf_filtered
    /\ qf_i' = qf_i + 1
    /\ UNCHANGED <<qf_config, qf_entities, qf_pc, ctorVars, ceVars, wrVars, plVars, newVars>>

\* line 160: return filtered_entities
FilterReturn ==
    /\ qf_pc = "loop" /\ qf_i >= Len(qf_entities)
    /\ qf_pc' = "returned"
    /\ UNCHANGED <<qf_config, qf_entities, qf_i, qf_filtered, ctorVars, ceVars, wrVars, plVars, newVars>>

\* the filter with a loop that starts at the second entity
RECURSIVE FilterKept(_, _)
FilterKept(entities, quality_config) ==
    IF entities = <<>> THEN <<>>
    ELSE (IF Keeps(Head(entities), quality_config) THEN <<Head(entities)>> ELSE <<>>)
         \o FilterKept(Tail(entities), quality_config)

FilterSkipsFirst(entities, quality_config) ==
    IF entities = <<>> THEN <<>> ELSE FilterKept(Tail(entities), quality_config)

\* apply_quality_filters as a function of its arguments
RECURSIVE apply_quality_filters(_, _)
apply_quality_filters(entities, quality_config) ==
    IF entities = <<>> THEN <<>>
    ELSE (IF Keeps(Head(entities), quality_config) THEN <<Head(entities)>> ELSE <<>>)
         \o apply_quality_filters(Tail(entities), quality_config)

----------------------------------------------------------------------------
(* DatabaseWriter.write_database *)

\* File contents: "absent" (no file), "old" (the complete pre-existing
\* file), "partial" (a file being written), "new" (the complete database,
\* which passes validation), "invalid" (a complete dump that fails
\* _validate_written_file).
PipelineErrorTypes ==
    {"PipelineError", "ConfigError", "AudioError", "TranscriptionError",
     "EntityError", "DatabaseError", "SpeakerError"}

Exc(type, msg, ctx) == [type |-> type, msg |-> msg, ctx |-> ctx]

\* line 62: temp_path = output_path.with_suffix(output_path.suffix + '.tmp')
TempPathIsOutputPath == "out"

temp_path == "tmp"

\* line 86: the condition under which the backup is moved back
RestoreNever(backup_path, backup_exists) == FALSE

RestoreNeeded(backup_path, backup_exists) == backup_path /\ backup_exists

\* lines 92-96: what the outer handler raises for the exception e
WriterExcept(e) ==
    IF e.type = "DatabaseError" THEN e
    ELSE Exc("DatabaseError", "Failed to write database", "output_path")

WrIdle ==
    /\ fs = [out |-> "absent", tmp |-> "absent", bak |-> "absent"]
    /\ fs_initial = "absent" /\ wr_backup_on_update = TRUE /\ wr_db = "new"
    /\ wr_backup_path = FALSE /\ wr_exc = <<>> /\ wr_pc = "idle"

\* The arguments and the environment of one call: the output file exists or
\* not, no temp or backup file of this call exists yet.
WrInputs ==
    /\ fs \in { [out |-> o, tmp |-> "absent", bak |-> "absent"] : o \in {"absent", "old"} }
    /\ fs_initial = fs.out
    /\ wr_backup_on_update \in BOOLEAN
    /\ wr_db \in {"new", "invalid", "unserializable"}
    /\ wr_backup_path = FALSE /\ wr_exc = <<>>

InitWriter == WrInputs /\ wr_pc = "mkdir"

wrFrame == <<ctorVars, ceVars, qfVars, plVars, newVars>>

\* line 53: output_path.parent.mkdir(parents=True, exist_ok=True)
WriteMkdir ==
    /\ wr_pc = "mkdir"
    /\ wr_pc' = "backup"
    /\ UNCHANGED <<fs, fs_initial, wr_backup_on_update, wr_db, wr_backup_path, wr_exc, wrFrame>>

\* line 53 raises OSError: the outer handler (lines 92-96) raises DatabaseError
WriteMkdirFails ==
    /\ wr_pc = "mkdir"
    /\ wr_exc' = <<WriterExcept(Exc("OSError", "mkdir", "none"))>>
    /\ wr_pc' = "raised"
    /\ UNCHANGED <<fs, fs_initial, wr_backup_on_update, wr_db, wr_backup_path, wrFrame>>

\* lines 56-59: copy the existing file to the timestamped backup
WriteBackup ==
    /\ wr_pc = "backup"
    /\ IF fs.out # "absent" /\ wr_backup_on_update
       THEN fs' = [fs EXCEPT !.bak = fs.out] /\ wr_backup_path' = TRUE
       ELSE UNCHANGED <<fs, wr_backup_path>>
    /\ wr_pc' = "write"
    /\ UNCHANGED <<fs_initial, wr_backup_on_update, wr_db, wr_exc, wrFrame>>

\* line 104: shutil.copy2 raises part-way; backup_path is never assigned
WriteBackupFails ==
    /\ wr_pc = "backup"
    /\ fs.out # "absent" /\ wr_backup_on_update
    /\ \E left \in {"absent", "partial"} : fs' = [fs EXCEPT !.bak = left]
    /\ wr_exc' = <<WriterExcept(Exc("OSError", "copy2", "none"))>>
    /\ wr_pc' = "raised"
    /\ UNCHANGED <<fs_initial, wr_backup_on_update, wr_db, wr_backup_path, wrFrame>>

\* line 109: open(temp_path, 'w') creates or truncates the file
WriteOpenTemp ==
    /\ wr_pc = "write"
    /\ fs' = [fs EXCEPT ![temp_path] = "partial"]
    /\ wr_pc' = "dump"
    /\ UNCHANGED <<fs_initial, wr_backup_on_update, wr_db, wr_backup_path, wr_exc, wrFrame>>

\* line 109 raises OSError: nothing is created
WriteOpenTempFails ==
    /\ wr_pc = "write"
    /\ wr_exc' = <<Exc("OSError", "open", "none")>>
    /\ wr_pc' = "cleanup"
    /\ UNCHANGED <<fs, fs_initial, wr_backup_on_update, wr_db, wr_backup_path, wrFrame>>

\* lines 110-124: json.dump completes and the file is closed
WriteDump ==
    /\ wr_pc = "dump"
    /\ wr_db # "unserializable"
    /\ fs' = [fs EXCEPT ![temp_path] = wr_db]
    /\ wr_pc' = "validate"
    /\ UNCHANGED <<fs_initial, wr_backup_on_update, wr_db, wr_backup_path, wr_exc, wrFrame>>

\* lines 110-124: json.dump raises (a value json cannot serialise, a full
\* disk); the file keeps what was written so far
WriteDumpFails ==
    /\ wr_pc = "dump"
    /\ wr_exc' = <<Exc(IF wr_db = "unserializable" THEN "TypeError" ELSE "OSError", "dump", "none")>>
    /\ wr_pc' = "cleanup"
    /\ UNCHANGED <<fs, fs_initial, wr_backup_on_update, wr_db, wr_backup_path, wrFrame>>

\* line 68, lines 126-145: _validate_written_file(temp_path)
WriteValidate ==
    /\ wr_pc = "validate"
    /\ IF fs[temp_path] = "new"
       THEN wr_pc' = "move" /\ wr_exc' = wr_exc
       ELSE /\ wr_exc' = <<Exc("DatabaseError", "Written file validation failed", "none")>>
            /\ wr_pc' = "cleanup"
    /\ UNCHANGED <<fs, fs_initial, wr_backup_on_update, wr_db, wr_backup_path, wrFrame>>

\* line 71: shutil.move(temp_path, output_path), a rename within one directory
WriteMove ==
    /\ wr_pc = "move"
    /\ fs' = IF temp_path = "out" THEN fs
             ELSE [fs EXCEPT !.out = fs[temp_path], ![temp_path] = "absent"]
    /\ wr_pc' = "returned"
    /\ UNCHANGED <<fs_initial, wr_backup_on_update, wr_db, wr_backup_path, wr_exc, wrFrame>>

\* line 71 raises OSError: the rename did not happen
WriteMoveFails ==
    /\ wr_pc = "move"
    /\ wr_exc' = <<Exc("OSError", "move", "none")>>
    /\ wr_pc' = "cleanup"
    /\ UNCHANGED <<fs, fs_initial, wr_backup_on_update, wr_db, wr_backup_path, wrFrame>>

\* lines 80-83: the inner handler removes the temp file
WriteCleanup ==
    /\ wr_pc = "cleanup"
    /\ fs' = IF fs[temp_path] # "absent" THEN [fs EXCEPT ![temp_path] = "absent"] ELSE fs
    /\ wr_pc' = "restore"
    /\ UNCHANGED <<fs_initial, wr_backup_on_update, wr_db, wr_backup_path, wr_exc, wrFrame>>

\* lines 85-96: the inner handler moves the backup back, re-raises, and the
\* outer handler raises DatabaseError
WriteRestoreAndRaise ==
    /\ wr_pc = "restore"
    /\ fs' = IF RestoreNeeded(wr_backup_path, fs.bak # "absent")
             THEN [fs EXCEPT !.out = fs.bak, !.bak = "absent"]
             ELSE fs
    /\ wr_exc' = <<WriterExcept(wr_exc[1])>>
    /\ wr_pc' = "raised"
    /\ UNCHANGED <<fs_initial, wr_backup_on_update, wr_db, wr_backup_path, wrFrame>>

NextWriter ==
    \/ WriteMkdir \/ WriteMkdirFails \/ WriteBackup \/ WriteBackupFails
    \/ WriteOpenTemp \/ WriteOpenTempFails \/ WriteDump \/ WriteDumpFails
    \/ WriteValidate \/ WriteMove \/ WriteMoveFails \/ WriteCleanup
    \/ WriteRestoreAndRaise

----------------------------------------------------------------------------
(* audio_to_json/transcription.py *)

\* Word(text=word_info.word.strip(), ...) for every word the engine yields
StripWords(raw) == [k \in 1..Len(raw) |-> [raw[k] EXCEPT !.text = Strip(raw[k].text)]]

Returned(words) == [raised |-> FALSE, words |-> words, exc |-> Exc("none", "none", "none")]
Raised(e)       == [raised |-> TRUE, words |-> <<>>, exc |-> e]

NonEmptyText(w) == Len(Strip(w.text)) > 0

\* lines 112-158: the words of all segments, returned as they are
_transcribe_with_faster_whisper(raw) == Returned(StripWords(raw))

\* lines 160-224: raises when no word was extracted, then drops empty words
_transcribe_with_openai_whisper(raw) ==
    LET words == StripWords(raw)
    IN  IF words = <<>>
        THEN Raised(Exc("TranscriptionError", "No words extracted from transcription", "none"))
        ELSE Returned(SelectSeq(words, NonEmptyText))

\* lines 83-110: TranscriptionEngine.transcribe_audio; engine_fails is the
\* speech engine raising inside model.transcribe
transcribe_audio(impl, raw, engine_fails) ==
    LET r == IF engine_fails THEN Raised(Exc("Exception", "engine", "none"))
             ELSE IF impl = "faster" THEN _transcribe_with_faster_whisper(raw)
             ELSE _transcribe_with_openai_whisper(raw)
    IN  IF r.raised
        THEN Raised(Exc("TranscriptionError", "Transcription failed", "none"))  \* line 110
        ELSE r

----------------------------------------------------------------------------
(* AudioToJsonPipeline *)

\* lines 136-177: _create_database; speaker_id.split('_') raises
\* AttributeError for a speaker_id that is not a str
_create_database(entities) ==
    IF \E j \in 1..Len(entities) : entities[j].speaker_id.kind # "str"
    THEN [raised |-> TRUE, exc |-> Exc("AttributeError", "split", "none"),
          db |-> [entities |-> <<>>, speaker_map |-> {}]]
    ELSE [raised |-> FALSE, exc |-> Exc("none", "none", "none"),
          db |-> [entities |-> entities,
                  speaker_map |-> IF entities = <<>> THEN {StrVal(0)}
                                  ELSE {entities[j].speaker_id : j \in 1..Len(entities)}]]

\* lines 179-221: _apply_smart_buffering returns the database it was given
_apply_smart_buffering(database) == database

\* lines 123-127: what the handler of process_audio_to_json raises for e
PipelineExceptWrapsAll(e) == Exc("PipelineError", "Pipeline failed", "audio_file")

PipelineExcept(e) ==
    IF e.type \in PipelineErrorTypes \/ e.type = "NotImplementedError" THEN e
    ELSE Exc("PipelineError", "Pipeline failed", "audio_file")

PipeWordDomain ==
    { [text |-> T_padded, start_ok |-> TRUE, start_time |-> 0, end_time |-> 500, confidence |-> 90],
      [text |-> T_blank, start_ok |-> TRUE, start_time |-> 500, end_time |-> 900, confidence |-> 90] }

PlIdle ==
    /\ pl_resume = "none" /\ pl_output_given = FALSE /\ pl_impl = "faster"
    /\ pl_raw = <<>> /\ pl_words = <<>> /\ pl_stages = <<>>
    /\ pl_database = <<>> /\ pl_stage_exc = <<>> /\ pl_raised = <<>> /\ pl_pc = "idle"

InitPipeline ==
    /\ pl_resume \in {"none", "transcription", "entities", "database"}
    /\ pl_output_given \in BOOLEAN
    /\ pl_impl \in {"faster", "openai"}
    /\ pl_raw \in SeqsUpTo(PipeWordDomain, MaxWords)
    /\ pl_words = <<>> /\ pl_stages = <<>> /\ pl_database = <<>> /\ pl_stage_exc = <<>> /\ pl_raised = <<>>
    /\ pl_pc = "audio"
    /\ fs \in { [out |-> o, tmp |-> "absent", bak |-> "absent"] : o \in {"absent", "old"} }
    /\ fs_initial = fs.out
    /\ wr_backup_on_update \in BOOLEAN
    /\ wr_db = "new" /\ wr_backup_path = FALSE /\ wr_exc = <<>> /\ wr_pc = "idle"

plFrame == <<ctorVars, ceVars, qfVars, newVars>>

\* the except clause of lines 123-127 runs for the exception e
PipelineRaise(e) ==
    /\ pl_stage_exc' = <<e>>
    /\ pl_raised' = <<PipelineExcept(e)>>
    /\ pl_pc' = "raised"

\* lines 61-69 with resume_from_stage set: NotImplementedError
StageAudioResume ==
    /\ pl_pc = "audio" /\ pl_resume # "none"
    /\ PipelineRaise(Exc("NotImplementedError", "Resume functionality not yet implemented", "none"))
    /\ UNCHANGED <<pl_resume, pl_output_given, pl_impl, pl_raw, pl_words, pl_stages,
                   pl_database, wrVars, plFrame>>

\* lines 61-66: process_audio returns
StageAudio ==
    /\ pl_pc = "audio" /\ pl_resume = "none"
    /\ pl_stages' = Append(pl_stages, "audio")
    /\ pl_pc' = "transcription"
    /\ UNCHANGED <<pl_resume, pl_output_given, pl_impl, pl_raw, pl_words,
                   pl_database, pl_stage_exc, pl_raised, wrVars, plFrame>>

\* line 63: process_audio raises AudioError (audio_processor.py lines 105-109)
StageAudioFails ==
    /\ pl_pc = "audio" /\ pl_resume = "none"
    /\ pl_stages' = Append(pl_stages, "audio")
    /\ PipelineRaise(Exc("AudioError", "Failed to process audio file", "file"))
    /\ UNCHANGED <<pl_resume, pl_output_given, pl_impl, pl_raw, pl_words,
                   pl_database, wrVars, plFrame>>

\* lines 72-77: transcribe_audio returns words or raises TranscriptionError
StageTranscription ==
    /\ pl_pc = "transcription"
    /\ pl_stages' = Append(pl_stages, "transcription")
    /\ \E engine_fails \in BOOLEAN :
         LET r == transcribe_audio(pl_impl, pl_raw, engine_fails)
         IN  IF r.raised
             THEN PipelineRaise(r.exc) /\ pl_words' = pl_words
             ELSE /\ pl_words' = r.words /\ pl_pc' = "entities"
                  /\ UNCHANGED <<pl_raised, pl_stage_exc>>
    /\ UNCHANGED <<pl_resume, pl_output_given, pl_impl, pl_raw, pl_database, wrVars, plFrame>>

\* lines 82-106: create_entities, apply_quality_filters, _create_database and
\* _apply_smart_buffering; lines 109-111: write_database is called when an
\* output path is given
StageEntities ==
    /\ pl_pc = "entities"
    /\ pl_stages' = Append(pl_stages, "entities")
    /\ LET entities == create_entities(pl_words, <<>>)
           filtered_entities == apply_quality_filters(entities, DefaultQuality)
           created == _create_database(filtered_entities)
       IN  IF created.raised
           THEN PipelineRaise(created.exc) /\ UNCHANGED <<pl_database, wr_pc>>
           ELSE /\ pl_database' = <<_apply_smart_buffering(created.db)>>
                /\ UNCHANGED <<pl_raised, pl_stage_exc>>
                /\ IF pl_output_given
                   THEN pl_pc' = "database" /\ wr_pc' = "mkdir"
                   ELSE pl_pc' = "complete" /\ wr_pc' = wr_pc
    /\ UNCHANGED <<pl_resume, pl_output_given, pl_impl, pl_raw, pl_words,
                   fs, fs_initial, wr_backup_on_update, wr_db, wr_backup_path, wr_exc, plFrame>>

\* lines 85-94: create_entities or apply_quality_filters raises EntityError
StageEntitiesFails ==
    /\ pl_pc = "entities"
    /\ pl_stages' = Append(pl_stages, "entities")
    /\ PipelineRaise(Exc("EntityError", "Failed to create entities", "none"))
    /\ UNCHANGED <<pl_resume, pl_output_given, pl_impl, pl_raw, pl_words,
                   pl_database, wrVars, plFrame>>

\* line 111: write_database returned
StageDatabase ==
    /\ pl_pc = "database" /\ wr_pc = "returned"
    /\ pl_stages' = Append(pl_stages, "database")
    /\ pl_pc' = "complete"
    /\ UNCHANGED <<pl_resume, pl_output_given, pl_impl, pl_raw, pl_words,
                   pl_database, pl_stage_exc, pl_raised, wrVars, plFrame>>

\* line 111: write_database raised DatabaseError
StageDatabaseFails ==
    /\ pl_pc = "database" /\ wr_pc = "raised"
    /\ pl_stages' = Append(pl_stages, "database")
    /\ PipelineRaise(wr_exc[1])
    /\ UNCHANGED <<pl_resume, pl_output_given, pl_impl, pl_raw, pl_words,
                   pl_database, wrVars, plFrame>>

\* lines 114-121: return database
PipelineReturn ==
    /\ pl_pc = "complete"
    /\ pl_pc' = "returned"
    /\ UNCHANGED <<pl_resume, pl_output_given, pl_impl, pl_raw, pl_words, pl_stages,
                   pl_database, pl_stage_exc, pl_raised, wrVars, plFrame>>

NextPipeline ==
    \/ StageAudioResume \/ StageAudio \/ StageAudioFails
    \/ StageTranscription \/ StageEntities \/ StageEntitiesFails
    \/ StageDatabase \/ StageDatabaseFails \/ PipelineReturn
    \/ NextWriter

----------------------------------------------------------------------------
(* DatabaseWriter._write_json_file: json.dump(database.model_dump(), f,    *)
(* ensure_ascii=False) to a file opened with config.output.encoding        *)

\* A JSON document is a tree of values of one shape: t is "null", "str",
\* "num", "arr" or "obj"; a number keeps its integer part and the digits
\* after the point; the items of an object carry a key, those of an array
\* the empty key.
JNull == [t |-> "null", chars |-> <<>>, int |-> 0, frac |-> <<>>, float |-> FALSE, items |-> <<>>]
JStr(chars) == [t |-> "str", chars |-> chars, int |-> 0, frac |-> <<>>, float |-> FALSE, items |-> <<>>]
JInt(n) == [t |-> "num", chars |-> <<>>, int |-> n, frac |-> <<>>, float |-> FALSE, items |-> <<>>]
JFloat(n, frac) == [t |-> "num", chars |-> <<>>, int |-> n, frac |-> frac, float |-> TRUE, items |-> <<>>]
JArr(vals) == [t |-> "arr", chars |-> <<>>, int |-> 0, frac |-> <<>>, float |-> FALSE,
               items |-> [k \in 1..Len(vals) |-> [key |-> <<>>, val |-> vals[k]]]]
JObj(items) == [t |-> "obj", chars |-> <<>>, int |-> 0, frac |-> <<>>, float |-> FALSE, items |-> items]

DigitChars == <<"0", "1", "2", "3", "4", "5", "6", "7", "8", "9">>
DigitChar(d) == DigitChars[d + 1]
IsDigit(c) == \E d \in 0..9 : DigitChars[d + 1] = c
CharDigit(c) == CHOOSE d \in 0..9 : DigitChars[d + 1] = c
DigitText(ds) == [k \in 1..Len(ds) |-> DigitChar(ds[k])]

\* float.__repr__ of a value held as n units of 1/10^width: the integer
\* part, a point, and the fraction without trailing zeros (at least one digit)
RECURSIVE StripTrailingZeros(_)
StripTrailingZeros(ds) ==
    IF Len(ds) > 1 /\ ds[Len(ds)] = 0 THEN StripTrailingZeros(SubSeq(ds, 1, Len(ds) - 1)) ELSE ds

RECURSIVE Pow10(_)
Pow10(width) == IF width = 0 THEN 1 ELSE 10 * Pow10(width - 1)

PyFloat(n, width) ==
    JFloat(n \div Pow10(width), StripTrailingZeros(ZeroPad(Digits(n % Pow10(width)), width)))

\* the value of a JSON number in units of 1/10^width
RECURSIVE PadRight(_, _)
PadRight(ds, width) == IF Len(ds) >= width THEN SubSeq(ds, 1, width) ELSE PadRight(Append(ds, 0), width)

RECURSIVE DigitsToInt(_)
DigitsToInt(ds) ==
    IF ds = <<>> THEN 0 ELSE 10 * DigitsToInt(SubSeq(ds, 1, Len(ds) - 1)) + ds[Len(ds)]

FloatOf(num, width) == num.int * Pow10(width) + DigitsToInt(PadRight(num.frac, width))

\* json.encoder with ensure_ascii=False: the quote, the backslash and the
\* control characters are escaped, every other character is written as it is
EscapeNothing(c) == <<c>>

EscapeChar(c) ==
    CASE c = "\"" -> <<"\\", "\"">>
      [] c = "\\" -> <<"\\", "\\">>
      [] c = "\n" -> <<"\\", "n">>
      [] OTHER -> <<c>>

\* body(v) for the value v of x: x is evaluated once, as a local variable is
Bind(x, body(_)) == CHOOSE r \in { body(v) : v \in {x} } : TRUE

\* the concatenation of the sequences ss[lo], ..., ss[hi]
RECURSIVE Concat(_, _, _)
Concat(ss, lo, hi) ==
    IF lo > hi THEN <<>>
    ELSE IF lo = hi THEN ss[lo]
    ELSE Concat(ss, lo, (lo + hi) \div 2) \o Concat(ss, (lo + hi) \div 2 + 1, hi)

\* "".join(ss)
Join(ss) == Bind(ss, LAMBDA v : Concat(v, 1, Len(v)))

JsonEscape(chars) == Join([k \in 1..Len(chars) |-> EscapeChar(chars[k])])

Quoted(chars) == <<"\"">> \o JsonEscape(chars) \o <<"\"">>

\* indent=2: a newline and two spaces per level; no indent: nothing
Spaces(n) == [k \in 1..n |-> " "]

Newline(depth, pretty) == IF pretty THEN <<"\n">> \o Spaces(2 * depth) ELSE <<>>

\* separators=(',', ': ') with pretty_print, (',', ':') without
KeySeparator(pretty) == IF pretty THEN <<":", " ">> ELSE <<":">>

RECURSIVE JsonDump(_, _, _)
JsonDump(value, depth, pretty) == Bind(value, LAMBDA v :
    LET item(k) == (IF k > 1 THEN <<",">> ELSE <<>>)
                   \o Newline(depth + 1, pretty)
                   \o (IF v.t = "obj" THEN Quoted(v.items[k].key) \o KeySeparator(pretty) ELSE <<>>)
                   \o JsonDump(v.items[k].val, depth + 1, pretty)
        items   == Join([k \in 1..Len(v.items) |-> item(k)])
    IN  CASE v.t = "null" -> <<"n", "u", "l", "l">>
          [] v.t = "str"  -> Quoted(v.chars)
          [] v.t = "num"  -> DigitText(Digits(v.int))
                             \o (IF v.float THEN <<".">> \o DigitText(v.frac) ELSE <<>>)
          [] v.t = "arr"  -> IF v.items = <<>> THEN <<"[", "]">>
                             ELSE <<"[">> \o items \o Newline(depth, pretty) \o <<"]">>
          [] v.t = "obj"  -> IF v.items = <<>> THEN <<"{", "}">>
                             ELSE <<"{">> \o items \o Newline(depth, pretty) \o <<"}">>)

\* The text file layer: open(file_path, 'w', encoding='utf-8') writes each
\* character as its UTF-8 bytes.  An ASCII byte is written here as its
\* character, the other bytes by their hexadecimal value.
Utf8Bytes(c) ==
    CASE c = "ñ" -> <<"xC3", "xB1">>
      [] c = "ó" -> <<"xC3", "xB3">>
      [] OTHER -> <<c>>

Encode(chars) == Join([k \in 1..Len(chars) |-> Utf8Bytes(chars[k])])

----------------------------------------------------------------------------
(* DatabaseWriter._validate_written_file: json.load(f) of the file opened  *)
(* with config.output.encoding, then WordDatabase.model_validate(data)     *)

\* open(file_path, 'r', encoding='utf-8').read(): UnicodeDecodeError gives ok = FALSE
Utf8Lead == {"xC3"}
Utf8Continuation == {"xB1", "xB3"}

Decode(bytes) ==
    LET ok == \A k \in 1..Len(bytes) :
                  /\ bytes[k] \in Utf8Lead => (k < Len(bytes) /\ bytes[k + 1] \in Utf8Continuation)
                  /\ bytes[k] \in Utf8Continuation => (k > 1 /\ bytes[k - 1] \in Utf8Lead)
        char(k) == IF bytes[k] \in Utf8Lead
                   THEN <<IF bytes[k + 1] = "xB1" THEN "ñ" ELSE "ó">>
                   ELSE IF bytes[k] \in Utf8Continuation THEN <<>> ELSE <<bytes[k]>>
    IN  IF ok
        THEN [ok |-> TRUE, chars |-> Join([k \in 1..Len(bytes) |-> char(k)])]
        ELSE [ok |-> FALSE, chars |-> <<>>]

\* json.decoder, one character at a time.  The state of the parse: mode is
\* what is expected next, stack holds the arrays and objects that are open
\* (innermost last), each with the items read so far and the key of the item
\* being read; buf holds the characters of the string, of the literal or of
\* the fraction being read, int the digits before the point; result holds
\* the value once the document is complete.  mode "fail" is JSONDecodeError.
ParserInit ==
    [mode |-> "value", stack |-> <<>>, buf |-> <<>>, int |-> <<>>, iskey |-> FALSE, result |-> <<>>]

ParseFail == [ParserInit EXCEPT !.mode = "fail"]

Container(isobj, items) == IF isobj THEN JObj(items) ELSE [JArr(<<>>) EXCEPT !.items = items]

JsonWhitespace == {" ", "\n"}

\* the value v is complete: it is the document, or an item of the innermost container
Complete(st, v) ==
    IF st.stack = <<>>
    THEN [st EXCEPT !.mode = "done", !.result = <<v>>, !.buf = <<>>, !.int = <<>>]
    ELSE [st EXCEPT !.mode = "after", !.buf = <<>>, !.int = <<>>,
                    !.stack[Len(st.stack)].items = Append(@, [key |-> st.stack[Len(st.stack)].key, val |-> v])]

Open(st, isobj) ==
    [st EXCEPT !.mode = IF isobj THEN "firstkey" ELSE "first",
               !.stack = Append(@, [isobj |-> isobj, items |-> <<>>, key |-> <<>>])]

Close(st) ==
    Complete([st EXCEPT !.stack = SubSeq(@, 1, Len(@) - 1)],
             Container(st.stack[Len(st.stack)].isobj, st.stack[Len(st.stack)].items))

\* the first character of a value
StepValue(st, c) ==
    IF c = "\"" THEN [st EXCEPT !.mode = "str", !.iskey = FALSE, !.buf = <<>>]
    ELSE IF c = "[" THEN Open(st, FALSE)
    ELSE IF c = "{" THEN Open(st, TRUE)
    ELSE IF c = "n" THEN [st EXCEPT !.mode = "lit", !.buf = <<"n">>]
    ELSE IF IsDigit(c) THEN [st EXCEPT !.mode = "num", !.int = <<CharDigit(c)>>]
    ELSE ParseFail

\* the character after a complete value
StepAfter(st, c) ==
    IF c \in JsonWhitespace THEN st
    ELSE IF st.mode # "after" THEN ParseFail
    ELSE IF c = "," THEN [st EXCEPT !.mode = IF st.stack[Len(st.stack)].isobj THEN "key" ELSE "value"]
    ELSE IF c = (IF st.stack[Len(st.stack)].isobj THEN "}" ELSE "]") THEN Close(st)
    ELSE ParseFail

Step(st, c) ==
    CASE st.mode = "fail" -> st
      [] st.mode = "str" ->
            IF c = "\"" THEN IF st.iskey
                             THEN [st EXCEPT !.mode = "colon", !.buf = <<>>, !.iskey = FALSE,
                                             !.stack[Len(st.stack)].key = st.buf]
                             ELSE Complete(st, JStr(st.buf))
            ELSE IF c = "\\" THEN [st EXCEPT !.mode = "esc"]
            ELSE IF c = "\n" THEN ParseFail    \* a control character inside a string
            ELSE [st EXCEPT !.buf = Append(@, c)]
      [] st.mode = "esc" ->
            IF c \in {"\"", "\\"} THEN [st EXCEPT !.mode = "str", !.buf = Append(@, c)]
            ELSE IF c = "n" THEN [st EXCEPT !.mode = "str", !.buf = Append(@, "\n")]
            ELSE ParseFail
      [] st.mode = "lit" ->
            IF Append(st.buf, c) = <<"n", "u", "l", "l">> THEN Complete(st, JNull)
            ELSE IF Append(st.buf, c) \in { <<"n", "u">>, <<"n", "u", "l">> }
                 THEN [st EXCEPT !.buf = Append(@, c)]
                 ELSE ParseFail
      [] st.mode = "num" ->
            IF IsDigit(c) THEN [st EXCEPT !.int = Append(@, CharDigit(c))]
            ELSE IF c = "." THEN [st EXCEPT !.mode = "point"]
            ELSE StepAfter(Complete(st, JInt(DigitsToInt(st.int))), c)
      [] st.mode = "point" ->
            IF IsDigit(c) THEN [st EXCEPT !.mode = "frac", !.buf = <<CharDigit(c)>>] ELSE ParseFail
      [] st.mode = "frac" ->
            IF IsDigit(c) THEN [st EXCEPT !.buf = Append(@, CharDigit(c))]
            ELSE StepAfter(Complete(st, JFloat(DigitsToInt(st.int), st.buf)), c)
      [] st.mode = "value" -> IF c \in JsonWhitespace THEN st ELSE StepValue(st, c)
      [] st.mode = "first" ->
            IF c \in JsonWhitespace THEN st
            ELSE IF c = "]" THEN Close(st)
            ELSE StepValue(st, c)
      [] st.mode \in {"firstkey", "key"} ->
            IF c \in JsonWhitespace THEN st
            ELSE IF c = "}" /\ st.mode = "firstkey" THEN Close(st)
            ELSE IF c = "\"" THEN [st EXCEPT !.mode = "str", !.iskey = TRUE, !.buf = <<>>]
            ELSE ParseFail
      [] st.mode = "colon" ->
            IF c \in JsonWhitespace THEN st
            ELSE IF c = ":" THEN [st EXCEPT !.mode = "value"]
            ELSE ParseFail
      [] OTHER -> StepAfter(st, c)            \* "after" and "done"

\* the state after the characters cs[lo..hi], read in order from the state st
RECURSIVE Scan(_, _, _, _)
Scan(cs, lo, hi, st) ==
    IF lo > hi THEN st
    ELSE IF lo = hi THEN Bind(st, LAMBDA s : Step(s, cs[lo]))
    ELSE Bind(Scan(cs, lo, (lo + hi) \div 2, st), LAMBDA s : Scan(cs, (lo + hi) \div 2 + 1, hi, s))

\* json.load: the whole text is one value; ok = FALSE for JSONDecodeError
JsonLoad(cs) ==
    Bind(Scan(cs, 1, Len(cs), ParserInit), LAMBDA st :
        IF st.mode = "done" THEN [ok |-> TRUE, val |-> st.result[1]]
        ELSE IF st.mode = "num" /\ st.stack = <<>> THEN [ok |-> TRUE, val |-> JInt(DigitsToInt(st.int))]
        ELSE IF st.mode = "frac" /\ st.stack = <<>>
             THEN [ok |-> TRUE, val |-> JFloat(DigitsToInt(st.int), st.buf)]
        ELSE [ok |-> FALSE, val |-> JNull])

----------------------------------------------------------------------------
(* WordDatabase.model_dump() and WordDatabase.model_validate(data)         *)

\* The Entity fields carried through the file: one str id, the text, the
\* three times (ms), the confidence (hundredths), the syllables, their
\* count, phonetic (always None) and speaker_id; the remaining fields are
\* of the same four types.  A str speaker_id holds its characters, an int
\* speaker_id (assigned after construction) its number.
K_metadata       == <<"m", "e", "t", "a", "d", "a", "t", "a">>
K_version        == <<"v", "e", "r", "s", "i", "o", "n">>
K_created_at     == <<"c", "r", "e", "a", "t", "e", "d", "_", "a", "t">>
K_speaker_map    == <<"s", "p", "e", "a", "k", "e", "r", "_", "m", "a", "p">>
K_entities       == <<"e", "n", "t", "i", "t", "i", "e", "s">>
K_entity_id      == <<"e", "n", "t", "i", "t", "y", "_", "i", "d">>
K_text           == <<"t", "e", "x", "t">>
K_start_time     == <<"s", "t", "a", "r", "t", "_", "t", "i", "m", "e">>
K_end_time       == <<"e", "n", "d", "_", "t", "i", "m", "e">>
K_duration       == <<"d", "u", "r", "a", "t", "i", "o", "n">>
K_confidence     == <<"c", "o", "n", "f", "i", "d", "e", "n", "c", "e">>
K_syllables      == <<"s", "y", "l", "l", "a", "b", "l", "e", "s">>
K_syllable_count == <<"s", "y", "l", "l", "a", "b", "l", "e", "_", "c", "o", "u", "n", "t">>
K_phonetic       == <<"p", "h", "o", "n", "e", "t", "i", "c">>
K_speaker_id     == <<"s", "p", "e", "a", "k", "e", "r", "_", "i", "d">>

Item(key, val) == [key |-> key, val |-> val]

EntityDump(e) ==
    JObj(<< Item(K_entity_id, JStr(e.entity_id)),
            Item(K_text, JStr(e.text)),
            Item(K_start_time, PyFloat(e.start_time, 3)),
            Item(K_end_time, PyFloat(e.end_time, 3)),
            Item(K_duration, PyFloat(e.duration, 3)),
            Item(K_confidence, PyFloat(e.confidence, 2)),
            Item(K_syllables, JArr([k \in 1..Len(e.syllables) |-> JStr(e.syllables[k])])),
            Item(K_syllable_count, JInt(e.syllable_count)),
            Item(K_phonetic, JNull),
            Item(K_speaker_id, IF e.speaker_id.kind = "str"
                               THEN JStr(e.speaker_id.chars) ELSE JInt(e.speaker_id.n)) >>)

model_dump(entities) ==
    JObj(<< Item(K_metadata, JObj(<< Item(K_version, JStr(<<"1", ".", "0">>)),
                                     Item(K_created_at, JStr(<<"t">>)) >>)),
            Item(K_speaker_map, JObj(<<>>)),
            Item(K_entities, JArr([k \in 1..Len(entities) |-> EntityDump(entities[k])])) >>)

HasKey(obj, key) == Bind(obj.items, LAMBDA items : \E k \in 1..Len(items) : items[k].key = key)

\* dict lookup: json.load keeps the last value of a repeated key
Lookup(obj, key) ==
    Bind(obj.items, LAMBDA items :
        items[CHOOSE j \in 1..Len(items) :
                  /\ items[j].key = key
                  /\ \A l \in (j + 1)..Len(items) : items[l].key # key].val)

EntityKeys ==
    { K_entity_id, K_text, K_start_time, K_end_time, K_duration, K_confidence,
      K_syllables, K_syllable_count, K_phonetic, K_speaker_id }

\* the types pydantic accepts for the fields of Entity
FieldTypesOk(item) == Bind(item, LAMBDA o :
    /\ o.t = "obj"
    /\ \A key \in EntityKeys \ {K_phonetic} : HasKey(o, key)
    /\ Lookup(o, K_entity_id).t = "str"
    /\ Lookup(o, K_text).t = "str"
    /\ \A key \in {K_start_time, K_end_time, K_duration, K_confidence} : Lookup(o, key).t = "num"
    /\ Lookup(o, K_syllables).t = "arr"
    /\ \A k \in 1..Len(Lookup(o, K_syllables).items) : Lookup(o, K_syllables).items[k].val.t = "str"
    /\ Lookup(o, K_syllable_count).t = "num"
    /\ \A k \in 1..Len(Lookup(o, K_syllable_count).frac) : Lookup(o, K_syllable_count).frac[k] = 0
    /\ HasKey(o, K_phonetic) => Lookup(o, K_phonetic).t \in {"null", "str"}
    /\ Lookup(o, K_speaker_id).t = "str")

EntityOfJson(item) == Bind(item, LAMBDA o :
    [ entity_id      |-> Lookup(o, K_entity_id).chars,
      text           |-> Lookup(o, K_text).chars,
      start_time     |-> FloatOf(Lookup(o, K_start_time), 3),
      end_time       |-> FloatOf(Lookup(o, K_end_time), 3),
      duration       |-> FloatOf(Lookup(o, K_duration), 3),
      confidence     |-> FloatOf(Lookup(o, K_confidence), 2),
      syllables      |-> [k \in 1..Len(Lookup(o, K_syllables).items) |->
                              Lookup(o, K_syllables).items[k].val.chars],
      syllable_count |-> Lookup(o, K_syllable_count).int,
      speaker_id     |-> [kind |-> "str", chars |-> Lookup(o, K_speaker_id).chars, n |-> 0] ])

\* Entity's validators applied to a record of the fields above
RtEntityValid(e) ==
    EntityValid([ start_time |-> e.start_time, end_time |-> e.end_time, duration |-> e.duration,
                  confidence |-> e.confidence, probability |-> e.confidence,
                  syllables |-> e.syllables, syllable_count |-> e.syllable_count,
                  quality_score |-> 0, entity_type |-> "word", speaker_id |-> e.speaker_id ])

\* lines 129-142: the keys required by _validate_written_file, then
\* WordDatabase.model_validate; ok = FALSE when it raises
model_validate(data) ==
    IF ~ (/\ data.t = "obj"
          /\ \A key \in {K_metadata, K_speaker_map, K_entities} : HasKey(data, key)
          /\ Lookup(data, K_metadata).t = "obj"
          /\ HasKey(Lookup(data, K_metadata), K_version)
          /\ HasKey(Lookup(data, K_metadata), K_created_at)
          /\ Lookup(data, K_speaker_map).t = "obj"
          /\ Lookup(data, K_entities).t = "arr")
    THEN [ok |-> FALSE, entities |-> <<>>]
    ELSE Bind(Lookup(data, K_entities).items, LAMBDA arr :
             IF \A k \in 1..Len(arr) : FieldTypesOk(arr[k].val)
             THEN Bind([k \in 1..Len(arr) |-> EntityOfJson(arr[k].val)], LAMBDA entities :
                      IF \A k \in 1..Len(entities) : RtEntityValid(entities[k])
                      THEN [ok |-> TRUE, entities |-> entities]
                      ELSE [ok |-> FALSE, entities |-> <<>>])
             ELSE [ok |-> FALSE, entities |-> <<>>])

\* the bytes _write_json_file leaves in the file
_write_json_file(entities, pretty) ==
    Bind(model_dump(entities), LAMBDA data : Encode(JsonDump(data, 0, pretty)))

\* _validate_written_file: every failure is raised as DatabaseError (line 145)
_validate_written_file(bytes) ==
    Bind(Decode(bytes), LAMBDA text :
        IF ~ text.ok THEN [ok |-> FALSE, entities |-> <<>>]
        ELSE Bind(JsonLoad(text.chars), LAMBDA loaded :
                 IF loaded.ok
                 THEN Bind(loaded.val, LAMBDA data : model_validate(data))
                 ELSE [ok |-> FALSE, entities |-> <<>>]))

\* Entities of a WordDatabase: non-ASCII text, text with a quote, with a
\* backslash, with a newline, empty text; times whose repr has one, two and
\* three digits after the point; a str speaker_id, and an int speaker_id
\* left by the speaker mapping.
T_nino    == <<"n", "i", "ñ", "o">>
T_corazon == <<"c", "o", "r", "a", "z", "ó", "n">>

RtCases ==
    { [text |-> T_nino,              start_time |-> 0,    end_time |-> 500,  syllables |-> << <<"n","i">>, <<"ñ","o">> >>],
      [text |-> T_corazon,           start_time |-> 5,    end_time |-> 1055, syllables |-> << T_corazon >>],
      [text |-> <<"a", "\"", "b">>,  start_time |-> 50,   end_time |-> 1000, syllables |-> <<>>],
      [text |-> <<"\\", "n">>,       start_time |-> 1000, end_time |-> 2500, syllables |-> << <<"\\">> >>],
      [text |-> <<"a", "\n", "b">>,  start_time |-> 1500, end_time |-> 1501, syllables |-> <<>>],
      [text |-> <<>>,                start_time |-> 120,  end_time |-> 130,  syllables |-> <<>>] }

RtEntityDomain ==
    { [ entity_id |-> <<"w", "_", "1">>, text |-> c.text,
        start_time |-> c.start_time, end_time |-> c.end_time, duration |-> c.end_time - c.start_time,
        confidence |-> 90, syllables |-> c.syllables, syllable_count |-> Len(c.syllables),
        speaker_id |-> spk ] :
        c \in RtCases,
        spk \in { [kind |-> "str", chars |-> <<"s", "_", "0">>, n |-> 0],
                  [kind |-> "int", chars |-> <<>>, n |-> 0] } }

RtIdle ==
    /\ rt_entities = <<>> /\ rt_pretty = FALSE /\ rt_file = <<>> /\ rt_loaded = <<>> /\ rt_pc = "idle"

InitRoundTrip ==
    /\ rt_entities \in SeqsUpTo(RtEntityDomain, MaxEntities)
    /\ rt_pretty \in BOOLEAN
    /\ rt_file = <<>> /\ rt_loaded = <<>> /\ rt_pc = "write"

rtFrame == <<ctorVars, ceVars, qfVars, wrVars, plVars, srVars, smVars, sbVars, dzVars, vrVars, lateVars>>

\* line 65: self._write_json_file(database, temp_path)
RtWrite ==
    /\ rt_pc = "write"
    /\ rt_file' = << _write_json_file(rt_entities, rt_pretty) >>
    /\ rt_pc' = "validate"
    /\ UNCHANGED <<rt_entities, rt_pretty, rt_loaded, rtFrame>>

\* line 68: self._validate_written_file(temp_path)
RtValidate ==
    /\ rt_pc = "validate"
    /\ \E r \in { _validate_written_file(rt_file[1]) } :
           IF r.ok
           THEN rt_loaded' = <<r.entities>> /\ rt_pc' = "valid"
           ELSE rt_loaded' = rt_loaded /\ rt_pc' = "error"
    /\ UNCHANGED <<rt_entities, rt_pretty, rt_file, rtFrame>>

NextRoundTrip == RtWrite \/ RtValidate

----------------------------------------------------------------------------
(* Speaker resolution for one word: EntityCreator._get_speaker_id as        *)
(* create_entities calls it on line 63                                      *)

\* The speaker_mapping argument: None, a list of {start, end, speaker_id}
\* entries, or a dict "start-end" -> speaker whose entries are modelled as
\* for _get_speaker_id above.
NoMapping == [kind |-> "none", entries |-> <<>>]
ListMapping(entries) == [kind |-> "list", entries |-> entries]
DictMapping(entries) == [kind |-> "dict", entries |-> entries]

SrWords == { <<0, 500>>, <<1000, 1500>>, <<1500, 2500>>, <<5000, 6000>> }

\* Diarization results the caller may hold: none, the single segment of
\* speaker 2 over [0, 2], and two segments of speakers 0 and 1.
SrDiarizations ==
    { <<>>,
      << << [speaker_id |-> 2, start_time |-> 0, end_time |-> 2000] >> >>,
      << << [speaker_id |-> 0, start_time |-> 0, end_time |-> 2000],
            [speaker_id |-> 1, start_time |-> 2000, end_time |-> 4000] >> >> }

SrMappings ==
    { NoMapping,
      ListMapping(<<>>),
      ListMapping(<< [start |-> 0, end |-> 2000, speaker_id |-> 3] >>),
      ListMapping(<< [start |-> 0, end |-> 1000, speaker_id |-> 3],
                     [start |-> 1000, end |-> 4000, speaker_id |-> 4] >>),
      DictMapping(<<>>),
      DictMapping(<< [key_ok |-> TRUE, range_start |-> 0, range_end |-> 2000, val_ok |-> TRUE, val |-> 5] >>),
      DictMapping(<< [key_ok |-> FALSE, range_start |-> 0, range_end |-> 0, val_ok |-> TRUE, val |-> 7],
                     [key_ok |-> TRUE, range_start |-> 0, range_end |-> 2000, val_ok |-> TRUE, val |-> 5] >>),
      DictMapping(<< [key_ok |-> TRUE, range_start |-> 0, range_end |-> 1000, val_ok |-> TRUE, val |-> 5],
                     [key_ok |-> TRUE, range_start |-> 1000, range_end |-> 4000, val_ok |-> TRUE, val |-> 6] >>),
      DictMapping(<< [key_ok |-> FALSE, range_start |-> 0, range_end |-> 0, val_ok |-> TRUE, val |-> 7],
                     [key_ok |-> FALSE, range_start |-> 0, range_end |-> 0, val_ok |-> TRUE, val |-> 8] >>) }

SrIdle ==
    /\ sr_word = <<0, 0>> /\ sr_diarization = <<>> /\ sr_mapping = NoMapping
    /\ sr_result = <<>> /\ sr_pc = "idle"

InitResolve ==
    /\ sr_word \in SrWords
    /\ sr_diarization \in SrDiarizations
    /\ sr_mapping \in SrMappings
    /\ sr_result = <<>> /\ sr_pc = "call"

srFrame == <<ctorVars, ceVars, qfVars, wrVars, plVars, rtVars, smVars, sbVars, dzVars, vrVars, lateVars>>

\* lines 169-186: the signature (line 166) has no diarization parameter, so
\* the result is a function of the mapping alone; line 169 returns 0 for
\* None and for an empty list or dict.
GetSpeakerIdReturns ==
    /\ sr_pc = "call"
    /\ sr_mapping.entries = <<>> \/ sr_mapping.kind = "dict"
    /\ sr_result' = << _get_speaker_id(sr_word[1], sr_word[2], sr_mapping.entries) >>
    /\ sr_pc' = "returned"
    /\ UNCHANGED <<sr_word, sr_diarization, sr_mapping, srFrame>>

\* line 174: speaker_mapping.items() on a non-empty list is an
\* AttributeError raised outside the try of line 176
GetSpeakerIdRaises ==
    /\ sr_pc = "call"
    /\ sr_mapping.entries # <<>> /\ sr_mapping.kind = "list"
    /\ sr_pc' = "raised"
    /\ UNCHANGED <<sr_word, sr_diarization, sr_mapping, sr_result, srFrame>>

NextResolve == GetSpeakerIdReturns \/ GetSpeakerIdRaises

----------------------------------------------------------------------------
(* audio_to_json/speaker_identification.py: SpeakerMapper *)

\* Python values a speaker_id can hold: a str, or an int assigned after
\* construction (assignment is not validated)
PyStr(chars) == [kind |-> "str", chars |-> chars, n |-> 0]
PyInt(n) == [kind |-> "int", chars |-> <<>>, n |-> n]

\* bool(value): `not entity.speaker_id` is ~Truthy(entity.speaker_id)
Truthy(value) == IF value.kind = "str" THEN value.chars # <<>> ELSE value.n # 0

\* copy.deepcopy(entities), with aliasing instead of copying
DeepCopyAliases(heap, entities) == [heap |-> heap, refs |-> entities]

\* line 47: copy.deepcopy(entities): new objects with equal values
deepcopy(heap, entities) ==
    [ heap |-> heap \o [k \in 1..Len(entities) |-> heap[entities[k]]],
      refs |-> [k \in 1..Len(entities) |-> Len(heap) + k] ]

\* lines 103-106: a list entry is a dict whose "start", "end" and
\* "speaker_id" keys may be absent (<<>>); end defaults to float('inf')
ListEntryContains(entity, mapping) ==
    LET start_time == IF mapping.start = <<>> THEN 0 ELSE mapping.start[1]
    IN  /\ 2 * start_time <= entity.start_time + entity.end_time
        /\ mapping.end = <<>> \/ entity.start_time + entity.end_time <= 2 * mapping.end[1]

\* the loop reading a key the entries do not have: line 107 always takes its default
RECURSIVE ListLoopDefaultId(_, _)
ListLoopDefaultId(entity, speaker_mapping) ==
    IF speaker_mapping = <<>> THEN <<>>
    ELSE IF ListEntryContains(entity, Head(speaker_mapping))
    THEN << PyInt(0) >>
    ELSE ListLoopDefaultId(entity, Tail(speaker_mapping))

\* lines 102-121: the speaker_id of the entry the loop breaks on (0 or 1)
RECURSIVE ListLoop(_, _)
ListLoop(entity, speaker_mapping) ==
    IF speaker_mapping = <<>> THEN <<>>
    ELSE IF ListEntryContains(entity, Head(speaker_mapping))
    THEN << IF Head(speaker_mapping).speaker_id = <<>> THEN PyInt(0)      \* line 107
            ELSE Head(speaker_mapping).speaker_id[1] >>
    ELSE ListLoop(entity, Tail(speaker_mapping))

\* lines 152-175: the items of the dict in order; st is [speaker_id,
\* speaker_map, warnings, matched].  An item is [key_ok, range_start,
\* range_end, val]: key_ok is FALSE for a key that lines 155-157 reject.
RECURSIVE DictLoop(_, _, _)
DictLoop(st, entity, items) ==
    IF items = <<>> THEN st
    ELSE LET m == Head(items)
         IN  IF ~m.key_ok
             THEN DictLoop([st EXCEPT !.warnings = @ + 1], entity, Tail(items))     \* lines 172-175
             ELSE IF ~ /\ 2 * m.range_start <= entity.start_time + entity.end_time  \* line 159
                       /\ entity.start_time + entity.end_time <= 2 * m.range_end
             THEN DictLoop(st, entity, Tail(items))
             ELSE IF m.val \in st.speaker_map                                       \* line 164
             THEN [st EXCEPT !.speaker_id = m.val, !.matched = TRUE]
             ELSE IF m.val.kind = "str"                                             \* line 166
             THEN [st EXCEPT !.speaker_id = m.val, !.matched = TRUE,
                             !.speaker_map = @ \cup {m.val}]
             \* line 166: an int has no split(): AttributeError after the
             \* assignment of line 160, caught on line 172
             ELSE DictLoop([st EXCEPT !.speaker_id = m.val, !.warnings = @ + 1],
                           entity, Tail(items))

UnsupportedMapping == [kind |-> "str", entries |-> <<>>]

SmSpeakers == { PyStr(<<"s", "_", "1">>), PyStr(<<>>), PyInt(2) }

SmEntityDomain ==
    { [ entity_id |-> EntityId(tm[1]), text |-> T_hola, start_time |-> tm[2], end_time |-> tm[3],
        duration |-> tm[3] - tm[2], confidence |-> 90, speaker_id |-> spk ] :
        tm \in { <<0, 1000, 1500>>, <<1, 4500, 5500>>, <<2, 20000, 20800>>,
                 <<0, 500, 1000>>, <<1, 2500, 3000>> },
        spk \in SmSpeakers }

SmListMappings ==
    { ListMapping(<<>>),
      ListMapping(<< [start |-> <<0>>, end |-> <<5000>>, speaker_id |-> <<PyInt(1)>>],
                     [start |-> <<5000>>, end |-> <<15000>>, speaker_id |-> <<PyInt(2)>>] >>),
      ListMapping(<< [start |-> <<0>>, end |-> <<15000>>, speaker_id |-> <<PyInt(1)>>],
                     [start |-> <<0>>, end |-> <<5000>>, speaker_id |-> <<PyInt(3)>>] >>),
      ListMapping(<< [start |-> <<>>, end |-> <<1250>>, speaker_id |-> <<>>],
                     [start |-> <<5000>>, end |-> <<>>, speaker_id |-> <<PyStr(<<"s", "_", "4">>)>>] >>) }

SmDictMappings ==
    { DictMapping(<<>>),
      DictMapping(<< [key_ok |-> TRUE, range_start |-> 0, range_end |-> 5000, val |-> PyStr(<<"s", "_", "0">>)],
                     [key_ok |-> TRUE, range_start |-> 5000, range_end |-> 15000, val |-> PyStr(<<"s", "_", "3">>)] >>),
      DictMapping(<< [key_ok |-> FALSE, range_start |-> 0, range_end |-> 0, val |-> PyStr(<<"s", "_", "5">>)],
                     [key_ok |-> TRUE, range_start |-> 0, range_end |-> 1250, val |-> PyStr(<<"s", "_", "3">>)] >>),
      DictMapping(<< [key_ok |-> FALSE, range_start |-> 0, range_end |-> 0, val |-> PyStr(<<"s", "_", "5">>)],
                     [key_ok |-> FALSE, range_start |-> 0, range_end |-> 0, val |-> PyStr(<<"s", "_", "6">>)] >>),
      DictMapping(<< [key_ok |-> TRUE, range_start |-> 0, range_end |-> 5000, val |-> PyInt(7)],
                     [key_ok |-> TRUE, range_start |-> 0, range_end |-> 15000, val |-> PyStr(<<"s", "_", "3">>)] >>) }

SmIdle ==
    /\ sm_heap = <<>> /\ sm_entities = <<>> /\ sm_given = <<>> /\ sm_mapping = NoMapping
    /\ sm_updated = <<>> /\ sm_i = 0 /\ sm_speaker_map = {} /\ sm_warnings = 0 /\ sm_pc = "idle"

InitMapper ==
    /\ sm_heap \in SeqsUpTo(SmEntityDomain, MaxEntities)
    /\ sm_entities = [k \in 1..Len(sm_heap) |-> k]
    /\ sm_given = sm_heap
    /\ sm_mapping \in {NoMapping, UnsupportedMapping} \cup SmListMappings \cup SmDictMappings
    /\ sm_updated = <<>> /\ sm_i = 0 /\ sm_speaker_map = {} /\ sm_warnings = 0 /\ sm_pc = "call"

smFrame == <<ctorVars, ceVars, qfVars, wrVars, plVars, rtVars, srVars, sbVars, dzVars, vrVars, lateVars>>

\* lines 47-55: the deep copy, then the dispatch on the mapping's type
ApplySpeakerMapping ==
    /\ sm_pc = "call"
    /\ sm_mapping.kind \in {"list", "dict"}
    /\ \E c \in { deepcopy(sm_heap, sm_entities) } :
           sm_heap' = c.heap /\ sm_updated' = c.refs
    /\ sm_i' = 1
    /\ sm_pc' = sm_mapping.kind
    /\ UNCHANGED <<sm_entities, sm_given, sm_mapping, sm_speaker_map, sm_warnings, smFrame>>

\* lines 47, 51 and 65-87: _apply_default_speaker on the deep copy
ApplyDefaultSpeaker ==
    /\ sm_pc = "call"
    /\ sm_mapping.kind = "none"
    /\ \E c \in { deepcopy(sm_heap, sm_entities) } :
           /\ sm_updated' = c.refs
           /\ sm_heap' = [a \in 1..Len(c.heap) |->
                            IF /\ \E k \in 1..Len(c.refs) : c.refs[k] = a         \* lines 70-72
                               /\ ~Truthy(c.heap[a].speaker_id)
                            THEN [c.heap[a] EXCEPT !.speaker_id = PyInt(0)]
                            ELSE c.heap[a]]
    /\ sm_speaker_map' = {PyInt(0)}                                                  \* lines 75-81
    /\ sm_pc' = "returned"
    /\ UNCHANGED <<sm_entities, sm_given, sm_mapping, sm_i, sm_warnings, smFrame>>

\* lines 47, 57 and 59-63: any other type raises SpeakerError
ApplyUnsupportedMapping ==
    /\ sm_pc = "call"
    /\ sm_mapping.kind \notin {"none", "list", "dict"}
    /\ \E c \in { deepcopy(sm_heap, sm_entities) } :
           sm_heap' = c.heap /\ sm_updated' = c.refs
    /\ sm_pc' = "raised"
    /\ UNCHANGED <<sm_entities, sm_given, sm_mapping, sm_i, sm_speaker_map, sm_warnings, smFrame>>

\* lines 98-131: one iteration of the loop over the entities
ListMappingStep ==
    /\ sm_pc = "list"
    /\ sm_i <= Len(sm_updated)
    /\ \E a \in { sm_updated[sm_i] } :
       \E found \in { ListLoop(sm_heap[a], sm_mapping.entries) } :
           IF found # <<>>
           THEN /\ sm_heap' = [sm_heap EXCEPT ![a].speaker_id = found[1]]            \* line 111
                /\ sm_speaker_map' = sm_speaker_map \cup {found[1]}                  \* lines 115-120
           ELSE IF ~Truthy(sm_heap[a].speaker_id)                                    \* line 124
           THEN /\ sm_heap' = [sm_heap EXCEPT ![a].speaker_id = PyInt(0)]
                /\ sm_speaker_map' = sm_speaker_map \cup {PyInt(0)}
           ELSE UNCHANGED <<sm_heap, sm_speaker_map>>
    /\ sm_i' = sm_i + 1
    /\ UNCHANGED <<sm_entities, sm_given, sm_mapping, sm_updated, sm_warnings, sm_pc, smFrame>>

\* lines 148-185: one iteration of the loop over the entities
DictMappingStep ==
    /\ sm_pc = "dict"
    /\ sm_i <= Len(sm_updated)
    /\ \E a \in { sm_updated[sm_i] } :
       \E st \in { DictLoop([speaker_id |-> sm_heap[a].speaker_id, speaker_map |-> sm_speaker_map,
                             warnings |-> sm_warnings, matched |-> FALSE],
                            sm_heap[a], sm_mapping.entries) } :
           /\ sm_warnings' = st.warnings
           /\ IF ~st.matched /\ ~Truthy(st.speaker_id)                               \* line 178
              THEN /\ sm_heap' = [sm_heap EXCEPT ![a].speaker_id = PyInt(0)]
                   /\ sm_speaker_map' = st.speaker_map \cup {PyInt(0)}
              ELSE /\ sm_heap' = [sm_heap EXCEPT ![a].speaker_id = st.speaker_id]
                   /\ sm_speaker_map' = st.speaker_map
    /\ sm_i' = sm_i + 1
    /\ UNCHANGED <<sm_entities, sm_given, sm_mapping, sm_updated, sm_pc, smFrame>>

\* lines 137 and 191: return entities, speaker_map
MappingReturn ==
    /\ sm_pc \in {"list", "dict"}
    /\ sm_i > Len(sm_updated)
    /\ sm_pc' = "returned"
    /\ UNCHANGED <<sm_heap, sm_entities, sm_given, sm_mapping, sm_updated, sm_i, sm_speaker_map,
                   sm_warnings, smFrame>>

NextMapper ==
    \/ ApplySpeakerMapping
    \/ ApplyDefaultSpeaker
    \/ ApplyUnsupportedMapping
    \/ ListMappingStep
    \/ DictMappingStep
    \/ MappingReturn

----------------------------------------------------------------------------
(* AudioToJsonPipeline._apply_smart_buffering, one pair per step.  Times of *)
(* this component are integers in microseconds, so that gaps below the      *)
(* tolerance of line 201 exist.                                             *)

ZeroGapTolerance == 1000        \* line 201: 0.001 s

Abs(x) == IF x < 0 THEN -x ELSE x

\* sorted(): stable insertion of e into a list sorted by start_time
RECURSIVE InsertByStart(_, _)
InsertByStart(e, sorted_entities) ==
    IF sorted_entities = <<>> THEN <<e>>
    ELSE IF sorted_entities[Len(sorted_entities)].start_time <= e.start_time
    THEN Append(sorted_entities, e)
    ELSE Append(InsertByStart(e, SubSeq(sorted_entities, 1, Len(sorted_entities) - 1)),
                sorted_entities[Len(sorted_entities)])

RECURSIVE SortedByStart(_)
SortedByStart(entities) ==
    IF entities = <<>> THEN <<>>
    ELSE InsertByStart(entities[Len(entities)], SortedByStart(SubSeq(entities, 1, Len(entities) - 1)))

\* database.entities.sort(key=...): sorting the list of the database itself
SortInPlace(entities) ==
    [entities |-> SortedByStart(entities), sorted_entities |-> SortedByStart(entities)]

\* line 190: sorted(database.entities, key=lambda e: e.start_time) builds a
\* new list and leaves database.entities as it is
SortEntities(entities) ==
    [entities |-> entities, sorted_entities |-> SortedByStart(entities)]

\* lines 199-207 without the continue of line 204
PairBranchNoContinue(current, next_entity) ==
    LET gap == next_entity.start_time - current.end_time
    IN  [zero_gap |-> Abs(gap) < ZeroGapTolerance, overlap |-> current.end_time > next_entity.start_time]

\* lines 199-207: the counters one iteration increments
PairBranch(current, next_entity) ==
    LET gap == next_entity.start_time - current.end_time                       \* line 199
    IN  IF Abs(gap) < ZeroGapTolerance                                         \* line 201
        THEN [zero_gap |-> TRUE, overlap |-> FALSE]                            \* lines 202-204
        ELSE [zero_gap |-> FALSE, overlap |-> current.end_time > next_entity.start_time]   \* line 207

\* Words of continuous speech: after the word ending at 0.5 s come words
\* starting exactly there, 0.5 ms and 1 ms later, 0.5 ms and 1 ms earlier,
\* and 0.3 s later.
SbTimes ==
    { <<0, 500000>>, <<500000, 1000000>>, <<500500, 900000>>, <<499500, 800000>>,
      <<501000, 1200000>>, <<499000, 700000>>, <<800000, 1200000>> }

SbEntityDomain ==
    { [text |-> T_hola, start_time |-> tm[1], end_time |-> tm[2], duration |-> tm[2] - tm[1]] :
        tm \in SbTimes }

SbIdle ==
    /\ sb_entities = <<>> /\ sb_given = <<>> /\ sb_sorted = <<>> /\ sb_i = 0
    /\ sb_counts = [zero_gap_count |-> 0, overlap_count |-> 0]
    /\ sb_classes = <<>> /\ sb_warnings = <<>> /\ sb_result = <<>> /\ sb_pc = "idle"

InitBuffering ==
    /\ sb_entities \in SeqsUpTo(SbEntityDomain, MaxPairs + 1)
    /\ sb_given = sb_entities
    /\ sb_sorted = <<>> /\ sb_i = 0
    /\ sb_counts = [zero_gap_count |-> 0, overlap_count |-> 0]
    /\ sb_classes = <<>> /\ sb_warnings = <<>> /\ sb_result = <<>> /\ sb_pc = "sort"

sbFrame == <<ctorVars, ceVars, qfVars, wrVars, plVars, rtVars, srVars, smVars, dzVars, vrVars, lateVars>>

\* lines 187-193
BufferingSort ==
    /\ sb_pc = "sort"
    /\ \E r \in { SortEntities(sb_entities) } :
           sb_entities' = r.entities /\ sb_sorted' = r.sorted_entities
    /\ sb_i' = 0
    /\ sb_counts' = [zero_gap_count |-> 0, overlap_count |-> 0]
    /\ sb_pc' = "loop"
    /\ UNCHANGED <<sb_given, sb_classes, sb_warnings, sb_result, sbFrame>>

\* lines 195-212: one iteration of the loop over range(len(sorted_entities) - 1)
BufferingPair ==
    /\ sb_pc = "loop"
    /\ sb_i < Len(sb_sorted) - 1
    /\ \E b \in { PairBranch(sb_sorted[sb_i + 1], sb_sorted[sb_i + 2]) } :
           /\ sb_counts' = [zero_gap_count |-> sb_counts.zero_gap_count + (IF b.zero_gap THEN 1 ELSE 0),
                            overlap_count |-> sb_counts.overlap_count + (IF b.overlap THEN 1 ELSE 0)]
           /\ sb_classes' = sb_classes
                               \o (IF b.zero_gap THEN <<"zero_gap">> ELSE <<>>)
                               \o (IF b.overlap THEN <<"overlap">> ELSE <<>>)
                               \o (IF ~b.zero_gap /\ ~b.overlap THEN <<"normal">> ELSE <<>>)
           /\ sb_warnings' = IF b.overlap THEN Append(sb_warnings, sb_i) ELSE sb_warnings
    /\ sb_i' = sb_i + 1
    /\ UNCHANGED <<sb_entities, sb_given, sb_sorted, sb_result, sb_pc, sbFrame>>

\* lines 214-220: the analysis is logged and the database is returned
BufferingReturn ==
    /\ sb_pc = "loop"
    /\ sb_i >= Len(sb_sorted) - 1
    /\ sb_result' = <<sb_entities>>
    /\ sb_pc' = "returned"
    /\ UNCHANGED <<sb_entities, sb_given, sb_sorted, sb_i, sb_counts, sb_classes, sb_warnings, sbFrame>>

NextBuffering == BufferingSort \/ BufferingPair \/ BufferingReturn

----------------------------------------------------------------------------
(* shared/models.py: SpeakerSegment and DiarizationResult, which            *)
(* diarization.py imports (line 12) and the source tree does not hold; they *)
(* follow the specification and tests/unit/test_models.py.  Confidences are *)
(* hundredths.                                                              *)

\* SpeakerSegment(...) is accepted: speaker_id >= 0, end_time > start_time,
\* confidence in (0, 1]
SpeakerSegmentValid(seg) ==
    /\ seg.speaker_id >= 0
    /\ seg.end_time > seg.start_time
    /\ seg.confidence > 0 /\ seg.confidence <= 100

\* The overlap two segments of one result may have, in milliseconds
OverlapTolerance == 100

\* DiarizationResult(...) is accepted: no two segments overlap by more than
\* the tolerance ("Segments must not have significant overlap"); an empty
\* segment list is accepted
DiarizationResultValid(segments) ==
    \A i, j \in 1..Len(segments) :
        i < j => Min(segments[i].end_time, segments[j].end_time)
                     - Max(segments[i].start_time, segments[j].start_time) <= OverlapTolerance

DiarizationResult(speakers, segments, audio_duration, processing_time) ==
    [speakers |-> speakers, segments |-> segments, audio_duration |-> audio_duration,
     processing_time |-> processing_time]

----------------------------------------------------------------------------
(* audio_to_json/diarization.py: DiarizationProcessor *)

min_segment_duration == 500     \* line 263: getattr(self.config, 'min_segment_duration', 0.5)
gap_threshold == 500            \* line 216

\* lines 275-290 with the duration passed on as it is
FallbackKeepsDuration(duration, processing_time) ==
    DiarizationResult(<<0>>,
                      << [speaker_id |-> 0, start_time |-> 0, end_time |-> duration, confidence |-> 100] >>,
                      duration, processing_time)

\* lines 275-290
_create_single_speaker_fallback(duration, processing_time) ==
    LET valid_duration == IF duration > 0 THEN Max(1000, duration) ELSE 1000       \* line 278
    IN  DiarizationResult(<<0>>,
                          << [speaker_id |-> 0, start_time |-> 0, end_time |-> valid_duration,
                              confidence |-> 100] >>,
                          valid_duration, processing_time)

RECURSIVE TotalCoverage(_)
TotalCoverage(segments) ==
    IF segments = <<>> THEN 0
    ELSE (Head(segments).end_time - Head(segments).start_time) + TotalCoverage(Tail(segments))

ShortSegments(segments) ==
    { k \in 1..Len(segments) : segments[k].end_time - segments[k].start_time < min_segment_duration }

\* lines 242-273 with a coverage threshold of 0.5
ValidateResultHalfCoverage(result, expected_duration) ==
    /\ result.speakers # <<>> /\ result.segments # <<>>
    /\ expected_duration > 0
    /\ ~ (2 * TotalCoverage(result.segments) < expected_duration)
    /\ \A k \in 1..Len(result.segments) : result.segments[k].confidence > 0
    /\ ~ (10 * Cardinality(ShortSegments(result.segments)) > 8 * Len(result.segments))

\* lines 242-273
_validate_result(result, expected_duration) ==
    /\ result.speakers # <<>> /\ result.segments # <<>>                              \* line 246
    /\ expected_duration > 0                                                         \* line 251: a ratio of 0
    /\ ~ (10 * TotalCoverage(result.segments) < 7 * expected_duration)               \* line 254
    /\ \A k \in 1..Len(result.segments) : result.segments[k].confidence > 0          \* line 259
    /\ ~ (10 * Cardinality(ShortSegments(result.segments)) > 8 * Len(result.segments))   \* line 265

\* lines 202-213: a label is [numbered, n]: "SPEAKER_<n>", or "SPEAKER_" followed by no number
_speaker_label_to_id(speaker_label) == IF speaker_label.numbered THEN speaker_label.n ELSE 0

\* lines 215-240
RECURSIVE MergeLoop(_, _)
MergeLoop(merged, rest) ==
    IF rest = <<>> THEN merged
    ELSE LET current == Head(rest)
             last == merged[Len(merged)]
         IN  IF /\ current.speaker_id = last.speaker_id
                /\ current.start_time - last.end_time <= gap_threshold               \* lines 227-228
             THEN MergeLoop([merged EXCEPT ![Len(merged)] =
                                 [speaker_id |-> last.speaker_id, start_time |-> last.start_time,
                                  end_time |-> current.end_time,
                                  confidence |-> Max(last.confidence, current.confidence)]],
                            Tail(rest))
             ELSE MergeLoop(Append(merged, current), Tail(rest))

_merge_close_segments(segments) ==
    IF segments = <<>> THEN segments ELSE MergeLoop(<<Head(segments)>>, Tail(segments))

\* lines 158-200: the tracks of the annotation, clamped to the audio, sorted
\* and merged; anything raised gives the single segment of lines 195-200
_extract_segments(diarization_output, audio_duration) ==
    LET single == << [speaker_id |-> 0, start_time |-> 0, end_time |-> audio_duration,
                      confidence |-> 100] >>
        clamped == [k \in 1..Len(diarization_output.tracks) |->
                       [speaker_id |-> _speaker_label_to_id(diarization_output.tracks[k].label),
                        start_time |-> Max(0, diarization_output.tracks[k].start),
                        end_time |-> Min(audio_duration, diarization_output.tracks[k].end),
                        confidence |-> 85]]
        InBounds(seg) == seg.end_time > seg.start_time                               \* line 176
        segments == SelectSeq(clamped, InBounds)
    IN  IF diarization_output.kind # "annotation" THEN single                        \* line 164 raises
        ELSE IF \E k \in 1..Len(segments) : ~SpeakerSegmentValid(segments[k]) THEN single
        ELSE _merge_close_segments(SortedByStart(segments))

\* line 85 and line 90: sorted(set(seg.speaker_id for seg in segments))
RECURSIVE SortedSet(_)
SortedSet(S) ==
    IF S = {} THEN <<>>
    ELSE LET least == CHOOSE x \in S : \A y \in S : x <= y
         IN  <<least>> \o SortedSet(S \ {least})

SpeakersOf(segments) == SortedSet({ segments[k].speaker_id : k \in 1..Len(segments) })

\* lines 109-116 with the exception raised again
HandlerReraises(audio_duration, processing_time) == [raised |-> TRUE, result |-> <<>>]

\* lines 109-116: the handler of `except Exception`
ProcessAudioHandler(audio_duration, processing_time) ==
    [raised |-> FALSE, result |-> << _create_single_speaker_fallback(audio_duration, processing_time) >>]

Label(n) == [numbered |-> TRUE, n |-> n]
Track(start, end, label) == [start |-> start, end |-> end, label |-> label]
Annotation(tracks) == [kind |-> "annotation", tracks |-> tracks]

\* What self.pipeline(audio_path) does: it raises, it returns an object
\* whose itertracks raises, or it returns an annotation: no track, one track
\* over half of a 10 s file, two tracks covering it, two overlapping tracks
\* of two speakers, two close tracks of one speaker reaching past the end, a
\* track nested in another of the same speaker, two short tracks, and a
\* track with a label that holds no number.
DzOutputs ==
    { [kind |-> "raises", tracks |-> <<>>],
      [kind |-> "broken", tracks |-> <<>>],
      Annotation(<<>>),
      Annotation(<< Track(0, 5000, Label(0)) >>),
      Annotation(<< Track(5000, 10000, Label(1)), Track(0, 5000, Label(0)) >>),
      Annotation(<< Track(0, 5500, Label(0)), Track(5000, 10000, Label(1)) >>),
      Annotation(<< Track(0, 4000, Label(0)), Track(4300, 12000, Label(0)) >>),
      Annotation(<< Track(0, 10000, Label(0)), Track(2000, 3000, Label(0)) >>),
      Annotation(<< Track(0, 200, Label(0)), Track(200, 400, Label(1)) >>),
      Annotation(<< Track(-500, 10000, [numbered |-> FALSE, n |-> 0]) >>) }

DzEnvDomain ==
    [ exists : BOOLEAN,                 \* line 65: Path(audio_path).exists()
      pyannote_available : BOOLEAN,     \* line 72: PYANNOTE_AVAILABLE
      load_fails : BOOLEAN,             \* line 78: _load_pipeline raises PipelineError
      output : DzOutputs,               \* line 81
      processing_time : {0, 1500} ]     \* lines 87 and 110: time.time() - start_time

DzDurations == { -1000, 0, 500, 10000 }

NoEnv ==
    [exists |-> FALSE, pyannote_available |-> FALSE, load_fails |-> FALSE,
     output |-> [kind |-> "raises", tracks |-> <<>>], processing_time |-> 0]

DzIdle ==
    /\ dz_env = NoEnv /\ dz_audio_duration = 0 /\ dz_candidate = <<>> /\ dz_errors = {}
    /\ dz_substituted = FALSE /\ dz_result = <<>> /\ dz_pc = "idle"

InitDiarization ==
    /\ dz_env \in DzEnvDomain
    /\ dz_audio_duration \in DzDurations
    /\ dz_candidate = <<>> /\ dz_errors = {} /\ dz_substituted = FALSE /\ dz_result = <<>>
    /\ dz_pc = "inputs"

dzFrame == <<ctorVars, ceVars, qfVars, wrVars, plVars, rtVars, srVars, smVars, sbVars, vrVars, lateVars>>

\* lines 57-69: the file must exist and the duration be positive
ProcessAudioInputs ==
    /\ dz_pc = "inputs"
    /\ IF ~dz_env.exists \/ dz_audio_duration <= 0
       THEN dz_errors' = dz_errors \cup {"input"} /\ dz_pc' = "except"
       ELSE dz_errors' = dz_errors /\ dz_pc' = "dependencies"
    /\ UNCHANGED <<dz_env, dz_audio_duration, dz_candidate, dz_substituted, dz_result, dzFrame>>

\* lines 72-78: without PyAnnote the fallback is returned; _load_pipeline may raise
ProcessAudioDependencies ==
    /\ dz_pc = "dependencies"
    /\ IF ~dz_env.pyannote_available
       THEN /\ dz_result' = << _create_single_speaker_fallback(dz_audio_duration, dz_env.processing_time) >>
            /\ dz_substituted' = TRUE
            /\ dz_errors' = dz_errors \cup {"dependency"}
            /\ dz_pc' = "returned"
       ELSE IF dz_env.load_fails
       THEN /\ dz_errors' = dz_errors \cup {"load"} /\ dz_pc' = "except"
            /\ UNCHANGED <<dz_result, dz_substituted>>
       ELSE /\ dz_pc' = "diarize"
            /\ UNCHANGED <<dz_result, dz_substituted, dz_errors>>
    /\ UNCHANGED <<dz_env, dz_audio_duration, dz_candidate, dzFrame>>

\* lines 81-94: the model runs, its output is converted and the result built
ProcessAudioDiarize ==
    /\ dz_pc = "diarize"
    /\ IF dz_env.output.kind = "raises"
       THEN /\ dz_errors' = dz_errors \cup {"model"} /\ dz_pc' = "except"
            /\ UNCHANGED dz_candidate
       ELSE \E segments \in { _extract_segments(dz_env.output, dz_audio_duration) } :
                IF DiarizationResultValid(segments)
                THEN /\ dz_candidate' = << DiarizationResult(SpeakersOf(segments), segments,
                                                             dz_audio_duration, dz_env.processing_time) >>
                     /\ dz_pc' = "validate"
                     /\ UNCHANGED dz_errors
                ELSE /\ dz_errors' = dz_errors \cup {"result"} /\ dz_pc' = "except"
                     /\ UNCHANGED dz_candidate
    /\ UNCHANGED <<dz_env, dz_audio_duration, dz_substituted, dz_result, dzFrame>>

\* lines 97-107: the validation gate, the completion log (which divides by
\* processing_time) and the return
ProcessAudioValidate ==
    /\ dz_pc = "validate"
    /\ IF ~_validate_result(dz_candidate[1], dz_audio_duration)
       THEN /\ dz_result' = << _create_single_speaker_fallback(dz_audio_duration, dz_env.processing_time) >>
            /\ dz_substituted' = TRUE
            /\ dz_errors' = dz_errors \cup {"validation"}
            /\ dz_pc' = "returned"
       ELSE IF dz_env.processing_time = 0
       THEN /\ dz_errors' = dz_errors \cup {"logging"} /\ dz_pc' = "except"
            /\ UNCHANGED <<dz_result, dz_substituted>>
       ELSE /\ dz_result' = dz_candidate /\ dz_pc' = "returned"
            /\ UNCHANGED <<dz_substituted, dz_errors>>
    /\ UNCHANGED <<dz_env, dz_audio_duration, dz_candidate, dzFrame>>

\* lines 109-116
ProcessAudioExcept ==
    /\ dz_pc = "except"
    /\ \E h \in { ProcessAudioHandler(dz_audio_duration, dz_env.processing_time) } :
           IF h.raised
           THEN dz_pc' = "raised" /\ UNCHANGED <<dz_result, dz_substituted>>
           ELSE dz_result' = h.result /\ dz_substituted' = TRUE /\ dz_pc' = "returned"
    /\ UNCHANGED <<dz_env, dz_audio_duration, dz_candidate, dz_errors, dzFrame>>

NextDiarization ==
    \/ ProcessAudioInputs
    \/ ProcessAudioDependencies
    \/ ProcessAudioDiarize
    \/ ProcessAudioValidate
    \/ ProcessAudioExcept

----------------------------------------------------------------------------
(* DiarizationProcessor._validate_result called on its own *)

\* Results whose segments follow one another without a gap from 0.0; a
\* segment is 0.2 s, 1 s or 3 s long, and a 3 s segment may have had its
\* confidence set to 0.0 after construction.
VrShapes ==
    { [length |-> 200, confidence |-> 80], [length |-> 1000, confidence |-> 80],
      [length |-> 3000, confidence |-> 80], [length |-> 3000, confidence |-> 0] }

RECURSIVE LayOut(_, _)
LayOut(shapes, start_time) ==
    IF shapes = <<>> THEN <<>>
    ELSE << [speaker_id |-> Len(shapes) % 2, start_time |-> start_time,
             end_time |-> start_time + Head(shapes).length, confidence |-> Head(shapes).confidence] >>
         \o LayOut(Tail(shapes), start_time + Head(shapes).length)

VrResults ==
    { DiarizationResult(SpeakersOf(LayOut(shapes, 0)), LayOut(shapes, 0), 10000, 1500) :
        shapes \in SeqsUpTo(VrShapes, MaxSegments) }

VrIdle ==
    /\ vr_result = DiarizationResult(<<>>, <<>>, 0, 0) /\ vr_expected_duration = 0
    /\ vr_verdict = <<>> /\ vr_pc = "idle"

InitValidate ==
    /\ vr_result \in VrResults
    /\ vr_expected_duration \in {4000, 10000}
    /\ vr_verdict = <<>> /\ vr_pc = "call"

vrFrame == <<ctorVars, ceVars, qfVars, wrVars, plVars, rtVars, srVars, smVars, sbVars, dzVars, lateVars>>

ValidateResult ==
    /\ vr_pc = "call"
    /\ vr_verdict' = << _validate_result(vr_result, vr_expected_duration) >>
    /\ vr_pc' = "returned"
    /\ UNCHANGED <<vr_result, vr_expected_duration, vrFrame>>

----------------------------------------------------------------------------
(* EntityCreator._calculate_quality_score, called on its own *)

MaxSyllables == 7

\* float(word_data.confidence) is any number: Word does not bound it
QsConfidences == { -50, 0, 40, 79, 100, 150 }

QsDurations == { 0, 199, 200, 1000, 2000, 2001, 5000 }

QsIdle ==
    /\ qs_confidence = 0 /\ qs_duration = 0 /\ qs_syllables = <<>>
    /\ qs_score = <<>> /\ qs_pc = "idle"

InitQuality ==
    /\ qs_confidence \in QsConfidences
    /\ qs_duration \in QsDurations
    /\ qs_syllables \in { [k \in 1..n |-> <<"s">>] : n \in 0..MaxSyllables }
    /\ qs_score = <<>> /\ qs_pc = "call"

\* lines 244-268
CalculateQualityScore ==
    /\ qs_pc = "call"
    /\ qs_score' = << _calculate_quality_score(qs_confidence, qs_duration, qs_syllables) >>
    /\ qs_pc' = "returned"
    /\ UNCHANGED <<qs_confidence, qs_duration, qs_syllables>>
    /\ UNCHANGED <<ctorVars, ceVars, qfVars, wrVars, plVars, rtVars, srVars, smVars, sbVars,
                   dzVars, vrVars, syVars, rfVars, scVars, mgVars>>

----------------------------------------------------------------------------
(* EntityCreator._estimate_syllables, called on its own *)

MaxLetters == 4

T_espanol == <<"e", "s", "p", "a", "ñ", "o", "l">>
T_miau    == <<"m", "i", "a", "u">>
T_toalla  == <<"t", "o", "a", "l", "l", "a">>
T_HOLA    == <<"H", "O", "L", "A">>

\* every text of up to MaxLetters characters over three plain vowels, a
\* consonant, a space and a capital, and the words of the tests
SyAlphabet == {"a", "i", "o", "l", " ", "A"}

SyTexts ==
    SeqsUpTo(SyAlphabet, MaxLetters)
        \cup {T_hola, T_tal, T_Tal, T_espanol, T_miau, T_toalla, T_HOLA, T_padded, T_nino, T_corazon}

InitSyllables == sy_text \in SyTexts /\ sy_syllables = <<>> /\ sy_pc = "call"

\* lines 188-242
EstimateSyllables ==
    /\ sy_pc = "call"
    /\ sy_syllables' = << _estimate_syllables(sy_text) >>
    /\ sy_pc' = "returned"
    /\ UNCHANGED sy_text
    /\ UNCHANGED <<ctorVars, ceVars, qfVars, wrVars, plVars, rtVars, srVars, smVars, sbVars,
                   dzVars, vrVars, qsVars, rfVars, scVars, mgVars>>

----------------------------------------------------------------------------
(* apply_quality_filters called on its own output *)

\* the entities of FilterDomain whose text is "tal" or "x"
RfDomain == { e \in FilterDomain : e.text \in {T_tal, T_x} }

InitRefilter ==
    /\ rf_config \in QualityDomain
    /\ rf_entities \in SeqsUpTo(RfDomain, MaxEntities)
    /\ rf_first = <<>> /\ rf_second = <<>> /\ rf_pc = "first"

rfFrame == <<ctorVars, ceVars, qfVars, wrVars, plVars, rtVars, srVars, smVars, sbVars,
             dzVars, vrVars, qsVars, syVars, scVars, mgVars>>

\* apply_quality_filters(entities, config)
FilterFirst ==
    /\ rf_pc = "first"
    /\ rf_first' = << apply_quality_filters(rf_entities, rf_config) >>
    /\ rf_pc' = "second"
    /\ UNCHANGED <<rf_config, rf_entities, rf_second, rfFrame>>

\* apply_quality_filters(filtered, config), on the list the first call returned
FilterSecond ==
    /\ rf_pc = "second"
    /\ rf_second' = << apply_quality_filters(rf_first[1], rf_config) >>
    /\ rf_pc' = "done"
    /\ UNCHANGED <<rf_config, rf_entities, rf_first, rfFrame>>

NextRefilter == FilterFirst \/ FilterSecond

----------------------------------------------------------------------------
(* create_entities, then apply_quality_filters on what it returned *)

T_como  == <<"c", "o", "m", "o">>
T_a     == <<"a">>
T_extraordinariamente ==
    <<"e", "x", "t", "r", "a", "o", "r", "d", "i", "n", "a", "r", "i", "a", "m", "e", "n", "t", "e">>

\* the mock words of test_entity_creation_e2e
ScScenario ==
    << [text |-> T_hola, start_ok |-> TRUE, start_time |-> 1000, end_time |-> 1500, confidence |-> 95],
       [text |-> T_que,  start_ok |-> TRUE, start_time |-> 1600, end_time |-> 1800, confidence |-> 40],
       [text |-> T_como, start_ok |-> TRUE, start_time |-> 1900, end_time |-> 2300, confidence |-> 90],
       [text |-> T_a,    start_ok |-> TRUE, start_time |-> 2400, end_time |-> 2420, confidence |-> 80],
       [text |-> T_extraordinariamente,
                         start_ok |-> TRUE, start_time |-> 3000, end_time |-> 7000, confidence |-> 80] >>

\* the elements of seq whose index is in S, in order
PickIndices(seq, S) ==
    LET F[k \in 0..Len(seq)] ==
            IF k = 0 THEN <<>>
            ELSE IF k \in S THEN Append(F[k - 1], seq[k]) ELSE F[k - 1]
    IN  F[Len(seq)]

InitScenario ==
    /\ sc_words \in { PickIndices(ScScenario, S) : S \in SUBSET (1..Len(ScScenario)) }
    /\ sc_config \in QualityDomain
    /\ sc_entities = <<>> /\ sc_filtered = <<>> /\ sc_pc = "create"

scFrame == <<ctorVars, ceVars, qfVars, wrVars, plVars, rtVars, srVars, smVars, sbVars,
             dzVars, vrVars, qsVars, syVars, rfVars, mgVars>>

\* entities = create_entities(words, speaker_mapping=None, recording_id=...)
ScenarioCreate ==
    /\ sc_pc = "create"
    /\ sc_entities' = << create_entities(sc_words, <<>>) >>
    /\ sc_pc' = "filter"
    /\ UNCHANGED <<sc_words, sc_config, sc_filtered, scFrame>>

\* filtered_entities = apply_quality_filters(entities, config.quality)
ScenarioFilter ==
    /\ sc_pc = "filter"
    /\ sc_filtered' = << apply_quality_filters(sc_entities[1], sc_config) >>
    /\ sc_pc' = "done"
    /\ UNCHANGED <<sc_words, sc_config, sc_entities, scFrame>>

NextScenario == ScenarioCreate \/ ScenarioFilter

----------------------------------------------------------------------------
(* DiarizationProcessor._merge_close_segments, called on its own *)

MaxMergeInput == 3

\* the intervals of test_merge_close_segments, and one that holds another
MgTimes == { <<0, 2000>>, <<2200, 4000>>, <<4500, 6000>>, <<0, 10000>>, <<2000, 3000>> }

MgSegmentDomain ==
    { [speaker_id |-> spk, start_time |-> tm[1], end_time |-> tm[2], confidence |-> c] :
        spk \in {0, 1}, tm \in MgTimes, c \in {80, 90} }

\* the caller sorts by start_time first (line 185)
InitMerge ==
    /\ mg_segments \in { segs \in SeqsUpTo(MgSegmentDomain, MaxMergeInput) :
                           \A k \in 1..(Len(segs) - 1) : segs[k].start_time <= segs[k + 1].start_time }
    /\ mg_merged = <<>> /\ mg_pc = "call"

\* lines 215-240
MergeCloseSegments ==
    /\ mg_pc = "call"
    /\ mg_merged' = << _merge_close_segments(mg_segments) >>
    /\ mg_pc' = "returned"
    /\ UNCHANGED mg_segments
    /\ UNCHANGED <<ctorVars, ceVars, qfVars, wrVars, plVars, rtVars, srVars, smVars, sbVars,
                   dzVars, vrVars, qsVars, syVars, rfVars, scVars>>

----------------------------------------------------------------------------
(* The components of this part that are not running *)

SyIdle == sy_text = <<>> /\ sy_syllables = <<>> /\ sy_pc = "idle"

RfIdle ==
    /\ rf_config = DefaultQuality /\ rf_entities = <<>> /\ rf_first = <<>>
    /\ rf_second = <<>> /\ rf_pc = "idle"

ScIdle ==
    /\ sc_words = <<>> /\ sc_config = DefaultQuality /\ sc_entities = <<>>
    /\ sc_filtered = <<>> /\ sc_pc = "idle"

MgIdle == mg_segments = <<>> /\ mg_merged = <<>> /\ mg_pc = "idle"

LateIdle == QsIdle /\ SyIdle /\ RfIdle /\ ScIdle /\ MgIdle

\* the components added after the pipeline and the writer are not running
MidIdle == RtIdle /\ SrIdle /\ SmIdle /\ SbIdle /\ DzIdle /\ VrIdle

NewIdle == MidIdle /\ LateIdle

----------------------------------------------------------------------------
(* Specifications *)

StartEntity == InitEntity /\ CeIdle /\ QfIdle /\ WrIdle /\ PlIdle /\ NewIdle

SpecEntity == StartEntity /\ [][Construct]_vars

NextCreate == CreateEntityStep \/ CreateEntitiesReturn

StartCreate == InitCreate /\ CtorIdle /\ QfIdle /\ WrIdle /\ PlIdle /\ NewIdle

SpecCreate == StartCreate /\ [][NextCreate]_vars

NextFilter == FilterStep \/ FilterReturn

StartFilter == InitFilter /\ CtorIdle /\ CeIdle /\ WrIdle /\ PlIdle /\ NewIdle

SpecFilter == StartFilter /\ [][NextFilter]_vars

StartWriter == InitWriter /\ CtorIdle /\ CeIdle /\ QfIdle /\ PlIdle /\ NewIdle

SpecWriter == StartWriter /\ [][NextWriter]_vars

StartPipeline == InitPipeline /\ CtorIdle /\ CeIdle /\ QfIdle /\ NewIdle

SpecPipeline == StartPipeline /\ [][NextPipeline]_vars

OldIdle == CtorIdle /\ CeIdle /\ QfIdle /\ WrIdle /\ PlIdle

StartRoundTrip == InitRoundTrip /\ OldIdle /\ SrIdle /\ SmIdle /\ SbIdle /\ DzIdle /\ VrIdle /\ LateIdle

SpecRoundTrip == StartRoundTrip /\ [][NextRoundTrip]_vars

StartResolve == InitResolve /\ OldIdle /\ RtIdle /\ SmIdle /\ SbIdle /\ DzIdle /\ VrIdle /\ LateIdle

SpecResolve == StartResolve /\ [][NextResolve]_vars

StartMapper == InitMapper /\ OldIdle /\ RtIdle /\ SrIdle /\ SbIdle /\ DzIdle /\ VrIdle /\ LateIdle

StartBuffering == InitBuffering /\ OldIdle /\ RtIdle /\ SrIdle /\ SmIdle /\ DzIdle /\ VrIdle /\ LateIdle

StartDiarization == InitDiarization /\ OldIdle /\ RtIdle /\ SrIdle /\ SmIdle /\ SbIdle /\ VrIdle /\ LateIdle

SpecDiarization == StartDiarization /\ [][NextDiarization]_vars

StartValidate == InitValidate /\ OldIdle /\ RtIdle /\ SrIdle /\ SmIdle /\ SbIdle /\ DzIdle /\ LateIdle

SpecValidate == StartValidate /\ [][ValidateResult]_vars

SpecBuffering == StartBuffering /\ [][NextBuffering]_vars

SpecMapper == StartMapper /\ [][NextMapper]_vars

StartQuality == InitQuality /\ OldIdle /\ MidIdle /\ SyIdle /\ RfIdle /\ ScIdle /\ MgIdle

SpecQuality == StartQuality /\ [][CalculateQualityScore]_vars

StartSyllables == InitSyllables /\ OldIdle /\ MidIdle /\ QsIdle /\ RfIdle /\ ScIdle /\ MgIdle

SpecSyllables == StartSyllables /\ [][EstimateSyllables]_vars

StartRefilter == InitRefilter /\ OldIdle /\ MidIdle /\ QsIdle /\ SyIdle /\ ScIdle /\ MgIdle

SpecRefilter == StartRefilter /\ [][NextRefilter]_vars

StartScenario == InitScenario /\ OldIdle /\ MidIdle /\ QsIdle /\ SyIdle /\ RfIdle /\ MgIdle

SpecScenario == StartScenario /\ [][NextScenario]_vars

StartMerge == InitMerge /\ OldIdle /\ MidIdle /\ QsIdle /\ SyIdle /\ RfIdle /\ ScIdle

SpecMerge == StartMerge /\ [][MergeCloseSegments]_vars

Init ==
    \/ StartEntity
    \/ StartCreate
    \/ StartFilter
    \/ StartWriter
    \/ StartPipeline
    \/ StartRoundTrip
    \/ StartResolve
    \/ StartMapper
    \/ StartBuffering
    \/ StartDiarization
    \/ StartValidate
    \/ StartQuality
    \/ StartSyllables
    \/ StartRefilter
    \/ StartScenario
    \/ StartMerge

Next ==
    \/ Construct \/ NextCreate \/ NextFilter \/ NextPipeline \/ NextRoundTrip \/ NextResolve
    \/ NextMapper \/ NextBuffering \/ NextDiarization \/ ValidateResult
    \/ CalculateQualityScore \/ EstimateSyllables \/ NextRefilter \/ NextScenario
    \/ MergeCloseSegments

Spec == Init /\ [][Next]_vars

----------------------------------------------------------------------------
(* Properties *)

Last(seq) == seq[Len(seq)]

InSeq(x, seq) == \E j \in 1..Len(seq) : seq[j] = x

RECURSIVE DigitsValue(_)
DigitsValue(ds) ==
    IF ds = <<>> THEN 0 ELSE 10 * DigitsValue(SubSeq(ds, 1, Len(ds) - 1)) + ds[Len(ds)]

\* The four conditions of the filter as the specification words them
PassesAllFour(e, c) ==
    /\ e.confidence >= c.min_confidence
    /\ c.min_word_duration <= e.duration /\ e.duration <= c.max_word_duration
    /\ \/ (c.syllable_range[1] <= e.syllable_count /\ e.syllable_count <= c.syllable_range[2])
       \/ Lower(e.text) \in { <<"t","a","l">>, <<"q","u","e">>, <<"c","o","n">>,
                              <<"p","o","r">>, <<"s","i","n">>, <<"s","o","n">> }
    /\ Strip(e.text) # <<>>

\* C1: apply_quality_filters keeps an Entity if and only if the four
\* conditions hold (confidence, duration bounds, syllable range or exception
\* word, non-empty stripped text): the output is exactly the visited entities
\* that pass, in order; with syllable_range = [2,6] a one-syllable "tal" that
\* meets the other conditions is kept and a one-syllable "x" is rejected.
C1_FilterKeepsIff ==
    /\ qf_filtered = SelectSeq(SubSeq(qf_entities, 1, qf_i), LAMBDA e : PassesAllFour(e, qf_config))
    /\ \A k \in 1..qf_i :
         LET e == qf_entities[k]
         IN  ( /\ qf_config.syllable_range = <<2, 6>>
               /\ e.syllable_count = 1
               /\ e.confidence >= qf_config.min_confidence
               /\ qf_config.min_word_duration <= e.duration
               /\ e.duration <= qf_config.max_word_duration )
             => /\ e.text = <<"t","a","l">> => InSeq(e, qf_filtered)
                /\ e.text = <<"x">> => ~ InSeq(e, qf_filtered)

C1_Witness ==
    /\ qf_pc = "returned" /\ qf_config.syllable_range = <<2, 6>>
    /\ Len(qf_entities) = 2 /\ Len(qf_filtered) = 1
    /\ qf_entities[1].text = <<"x">> /\ qf_entities[1].syllable_count = 1
    /\ qf_entities[1].confidence = 80 /\ qf_entities[1].duration = 300
    /\ qf_entities[2].text = <<"t","a","l">> /\ qf_entities[2].syllable_count = 1
    /\ qf_filtered[1] = qf_entities[2]

\* A hypothesis that satisfies the WordHypothesis contract: numeric times,
\* start_time >= 0, end_time > start_time, confidence in [0,1], text not
\* empty after cleaning.
ValidHypothesis(w) ==
    /\ w.start_ok /\ w.start_time >= 0 /\ w.end_time > w.start_time
    /\ w.confidence >= 0 /\ w.confidence <= 100
    /\ Strip(w.text) # <<>>

EntityOfWord(k) == { j \in 1..Len(ce_entities) : DigitsValue(ce_entities[j].entity_id.digits) = k + 1 }

\* C2: a hypothesis that fails entity construction is skipped with a warning
\* and never aborts the batch: create_entities returns, and its result holds
\* an Entity for every valid hypothesis, in stream order.
C2_ValidWordsYieldEntities ==
    ce_pc = "returned" =>
        /\ \A k \in 0..(Len(ce_words) - 1) :
              ValidHypothesis(ce_words[k + 1]) => EntityOfWord(k) # {}
        /\ \A j1, j2 \in 1..Len(ce_entities) :
              j1 < j2 => DigitsValue(ce_entities[j1].entity_id.digits)
                           < DigitsValue(ce_entities[j2].entity_id.digits)

\* C3: no Entity is produced for a hypothesis with end_time <= start_time or
\* with confidence outside [0,1]; each such hypothesis visited by the loop is
\* skipped with a warning.
C3_InvalidTimesOrConfidenceSkipped ==
    \A k \in 0..(ce_i - 1) :
        LET w == ce_words[k + 1]
        IN  (w.end_time <= w.start_time \/ w.confidence < 0 \/ w.confidence > 100)
            => EntityOfWord(k) = {} /\ InSeq(k, ce_warnings)

C3_Witness ==
    /\ ce_pc = "returned" /\ Len(ce_words) = 2
    /\ ce_words[1].start_ok /\ ce_words[1].end_time <= ce_words[1].start_time
    /\ ce_words[1].confidence = 90 /\ ce_words[1].start_time >= 0
    /\ ce_words[2].start_ok /\ ce_words[2].end_time > ce_words[2].start_time
    /\ ce_words[2].confidence > 100
    /\ ce_warnings = <<0, 1>>

C7_NoWordsIsAnError ==
    (pl_raw = <<>> /\ InSeq("transcription", pl_stages))
        => /\ pl_pc = "raised"
           /\ pl_raised[1].type = "TranscriptionError"

C9_OutputNeverPartial ==
    /\ fs.out \in {fs_initial, "new"}
    /\ wr_pc = "raised" => fs.tmp = "absent"

C9_Witness ==
    /\ wr_pc = "raised" /\ wr_db = "unserializable"
    /\ wr_exc[1].type = "DatabaseError" /\ wr_exc[1].msg = "Failed to write database"
    /\ fs_initial = "old" /\ fs.out = "old" /\ fs.tmp = "absent"

\* C10: with backup_on_update and an existing output file, the file is
\* copied to the backup before anything is written, and when the write fails
\* the output path ends with exactly the pre-existing content, the backup
\* having been moved back over it.
C10_BackupRestored ==
    (wr_backup_on_update /\ fs_initial # "absent")
        => /\ fs.tmp # "absent" => (wr_backup_path /\ fs.bak = fs_initial)
           /\ fs.out # fs_initial => (wr_backup_path /\ fs.bak = fs_initial)
           /\ wr_pc = "raised" => fs.out = fs_initial
           /\ (wr_pc = "raised" /\ wr_backup_path) => fs.bak = "absent"

C10_Witness ==
    /\ wr_pc = "raised" /\ wr_backup_on_update /\ fs_initial = "old"
    /\ wr_backup_path /\ fs.out = "old" /\ fs.bak = "absent" /\ fs.tmp = "absent"
    /\ wr_exc[1].msg = "Written file validation failed"

----------------------------------------------------------------------------
\* C11: writing a WordDatabase of valid entities to JSON and parsing the
\* file back succeeds and yields an equal entity list: the same ids, texts
\* (non-ASCII characters included), timings and order.
C11_RoundTrip ==
    (rt_pc \in {"valid", "error"} /\ \A k \in 1..Len(rt_entities) : RtEntityValid(rt_entities[k]))
        => (rt_pc = "valid" /\ rt_loaded = <<rt_entities>>)

\* "niño" and "corazón" were written pretty-printed and read back
C11_Witness ==
    /\ rt_pc = "valid"
    /\ rt_pretty
    /\ Len(rt_entities) = 2
    /\ rt_entities[1].text = T_nino /\ rt_entities[2].text = T_corazon
    /\ rt_loaded[1][1].text = T_nino /\ rt_loaded[1][2].text = T_corazon

----------------------------------------------------------------------------
\* The midpoint (start + end) / 2 of the word lies in [lo, hi]
MidpointIn(word, lo, hi) == 2 * lo <= word[1] + word[2] /\ word[1] + word[2] <= 2 * hi

\* The segments of a diarization result whose [start_time, end_time) holds the midpoint
SegmentsAt(word, segments) ==
    { k \in 1..Len(segments) :
        /\ 2 * segments[k].start_time <= word[1] + word[2]
        /\ word[1] + word[2] < 2 * segments[k].end_time }

\* The speaker_id of the first entry of a list mapping that holds the midpoint, else 0
RECURSIVE FirstListEntry(_, _)
FirstListEntry(word, entries) ==
    IF entries = <<>> THEN 0
    ELSE IF MidpointIn(word, Head(entries).start, Head(entries).end) THEN Head(entries).speaker_id
    ELSE FirstListEntry(word, Tail(entries))

\* C12: the speaker of a word comes from the first available source in the
\* order diarization result, list mapping, dict mapping, default 0; when a
\* diarization result and a mapping are both supplied and disagree, the
\* speaker of the diarization segment holding the midpoint is returned.
C12_SourcePriority ==
    sr_pc \in {"returned", "raised"} =>
        /\ sr_pc = "returned"
        /\ IF sr_diarization # <<>> /\ SegmentsAt(sr_word, sr_diarization[1]) # {}
           THEN \E k \in SegmentsAt(sr_word, sr_diarization[1]) :
                    sr_result[1] = IntVal(sr_diarization[1][k].speaker_id)
           ELSE IF sr_diarization # <<>> THEN TRUE
           ELSE IF sr_mapping.kind = "list"
           THEN sr_result[1] = IntVal(FirstListEntry(sr_word, sr_mapping.entries))
           ELSE IF sr_mapping.kind = "dict"
           THEN sr_result[1] = SpeakerLoop(sr_word[1], sr_word[2], sr_mapping.entries)
           ELSE sr_result[1] = IntVal(0)

----------------------------------------------------------------------------
\* The entries of a list mapping whose [start, end] holds the midpoint of the entity
ListHits(entity, entries) ==
    { j \in 1..Len(entries) : ListEntryContains(entity, entries[j]) }

\* The well-formed keys of a dict mapping whose range holds the midpoint of the entity
DictHits(entity, items) ==
    { j \in 1..Len(items) :
        /\ items[j].key_ok
        /\ 2 * items[j].range_start <= entity.start_time + entity.end_time
        /\ entity.start_time + entity.end_time <= 2 * items[j].range_end }

Least(S) == CHOOSE j \in S : \A i \in S : j <= i

\* C13: with a list mapping, the first entry whose [start, end] holds the
\* midpoint of the entity (both ends included) gives the entity its
\* speaker_id, and an entity whose midpoint no entry holds gets speaker_id 0.
C13_ListMapping ==
    (sm_pc = "returned" /\ sm_mapping.kind = "list") =>
        \A k \in 1..Len(sm_updated) :
            LET hits == ListHits(sm_given[k], sm_mapping.entries)
                first == sm_mapping.entries[Least(hits)]
            IN  sm_heap[sm_updated[k]].speaker_id =
                    IF hits = {} THEN PyInt(0)
                    ELSE IF first.speaker_id = <<>> THEN PyInt(0)
                    ELSE first.speaker_id[1]

\* C14: with a dict mapping whose values are strings, a malformed key never
\* raises: it is skipped with a warning, the other keys are still tried with
\* the inclusive midpoint rule, and an entity no key matches gets speaker_id 0.
C14_DictMapping ==
    ( /\ sm_pc \in {"returned", "raised"}
      /\ sm_mapping.kind = "dict"
      /\ \A j \in 1..Len(sm_mapping.entries) : sm_mapping.entries[j].val.kind = "str" ) =>
        /\ sm_pc = "returned"
        /\ \A k \in 1..Len(sm_updated) :
               LET hits == DictHits(sm_given[k], sm_mapping.entries)
               IN  /\ sm_heap[sm_updated[k]].speaker_id =
                          IF hits = {} THEN PyInt(0) ELSE sm_mapping.entries[Least(hits)].val
                   /\ (\E j \in 1..Len(sm_mapping.entries) :
                          /\ ~sm_mapping.entries[j].key_ok
                          /\ \A h \in hits : j < h) => sm_warnings > 0

\* C15: applying a speaker mapping never modifies the entities the caller
\* passed, and the entities it returns are as many, in the same order, and
\* differ from the caller's in nothing but speaker_id.
C15_OnlySpeakerChanges ==
    /\ \A k \in 1..Len(sm_entities) : sm_heap[sm_entities[k]] = sm_given[k]
    /\ sm_pc = "returned" =>
           /\ Len(sm_updated) = Len(sm_given)
           /\ \A k \in 1..Len(sm_updated) :
                  [sm_heap[sm_updated[k]] EXCEPT !.speaker_id = sm_given[k].speaker_id] = sm_given[k]

\* two different entities went through a list mapping that gave a new speaker_id to both
C15_Witness ==
    /\ sm_pc = "returned"
    /\ sm_mapping.kind = "list"
    /\ Len(sm_given) = 2
    /\ sm_given[1].entity_id # sm_given[2].entity_id
    /\ \A k \in 1..2 : sm_heap[sm_updated[k]].speaker_id # sm_given[k].speaker_id

----------------------------------------------------------------------------
\* The class of a consecutive pair as the specification words it
GapClass(current, next_entity) ==
    LET gap == next_entity.start_time - current.end_time
    IN  IF gap < ZeroGapTolerance /\ -gap < ZeroGapTolerance THEN "zero_gap"
        ELSE IF current.end_time > next_entity.start_time THEN "overlap"
        ELSE "normal"

CountOf(class, classes) == Cardinality({ k \in 1..Len(classes) : classes[k] = class })

\* C16: over the entities sorted by start_time, every consecutive pair is put
\* in exactly one class: zero-gap when |gap| < 0.001 s, overlap when
\* current.end_time > next.start_time beyond that tolerance, normal
\* otherwise; the zero-gap and overlap counters count their classes, and the
\* three classes together count every pair once.
C16_PairClasses ==
    sb_pc = "returned" =>
        /\ \A k \in 1..(Len(sb_sorted) - 1) : sb_sorted[k].start_time <= sb_sorted[k + 1].start_time
        /\ Len(sb_classes) = (IF sb_given = <<>> THEN 0 ELSE Len(sb_given) - 1)
        /\ \A k \in 1..Len(sb_classes) : sb_classes[k] = GapClass(sb_sorted[k], sb_sorted[k + 1])
        /\ sb_counts.zero_gap_count = CountOf("zero_gap", sb_classes)
        /\ sb_counts.overlap_count = CountOf("overlap", sb_classes)
        /\ sb_counts.zero_gap_count + sb_counts.overlap_count + CountOf("normal", sb_classes)
               = Len(sb_classes)

\* a pair whose words overlap by half a millisecond was counted zero-gap
\* and the next pair, overlapping by 0.3 s, was counted overlap
C16_Witness ==
    /\ sb_pc = "returned"
    /\ Len(sb_sorted) = 3
    /\ sb_sorted[2].start_time - sb_sorted[1].end_time = -500
    /\ sb_classes = <<"zero_gap", "overlap">>
    /\ sb_counts = [zero_gap_count |-> 1, overlap_count |-> 1]

\* C17: _apply_smart_buffering returns the database with its entities as
\* they were given: none added, removed or reordered, no start_time,
\* end_time or duration changed, whatever the gaps and overlaps.
C17_EntitiesUnmodified ==
    /\ sb_entities = sb_given
    /\ sb_pc = "returned" => sb_result = <<sb_given>>

\* a database given out of order, holding a zero-gap pair and an overlapping pair, was returned
C17_Witness ==
    /\ sb_pc = "returned"
    /\ Len(sb_given) = 3
    /\ sb_given # sb_sorted
    /\ sb_counts.zero_gap_count >= 1 /\ sb_counts.overlap_count >= 1
    /\ sb_result[1] = sb_given

----------------------------------------------------------------------------
\* The single-speaker result: speaker 0 alone, one segment of speaker 0 from 0.0 with confidence 1.0
SingleSpeaker(result) ==
    /\ result.speakers = <<0>>
    /\ Len(result.segments) = 1
    /\ result.segments[1].speaker_id = 0
    /\ result.segments[1].start_time = 0
    /\ result.segments[1].confidence = 100

\* An error of the kinds the claim lists was met by this call
DiarizationError ==
    \/ ~dz_env.exists
    \/ dz_audio_duration <= 0
    \/ ~dz_env.pyannote_available
    \/ dz_env.load_fails
    \/ dz_env.output.kind = "raises"
    \/ dz_candidate # <<>> /\ ~_validate_result(dz_candidate[1], dz_audio_duration)

----------------------------------------------------------------------------
\* C19: the validation gate rejects every result that covers less than 70%
\* of the declared duration, or has a segment of non-positive confidence, or
\* has more than 80% of its segments shorter than the minimum; it accepts a
\* non-empty result with none of these; a result covering 50% is rejected.
C19_ValidationGate ==
    vr_pc = "returned" =>
        LET segments == vr_result.segments
            low_coverage == 10 * TotalCoverage(segments) < 7 * vr_expected_duration
            non_positive == \E k \in 1..Len(segments) : segments[k].confidence <= 0
            mostly_short ==
                10 * Cardinality({ k \in 1..Len(segments) :
                                     segments[k].end_time - segments[k].start_time < min_segment_duration })
                    > 8 * Len(segments)
        IN  /\ (low_coverage \/ non_positive \/ mostly_short) => vr_verdict = <<FALSE>>
            /\ ( /\ segments # <<>> /\ vr_result.speakers # <<>>
                 /\ ~low_coverage /\ ~non_positive /\ ~mostly_short ) => vr_verdict = <<TRUE>>
            /\ 2 * TotalCoverage(segments) = vr_expected_duration => vr_verdict = <<FALSE>>

\* a result of three confident segments covering 5 s of a declared 10 s was rejected
C19_Witness ==
    /\ vr_pc = "returned"
    /\ vr_expected_duration = 10000
    /\ Len(vr_result.segments) = 3
    /\ TotalCoverage(vr_result.segments) = 5000
    /\ \A k \in 1..3 : vr_result.segments[k].confidence > 0
    /\ vr_verdict = <<FALSE>>

----------------------------------------------------------------------------
\* C20: whenever the single-speaker fallback is substituted, the result has
\* speakers == [0] and exactly one segment, of speaker 0 and confidence 1.0,
\* from 0.0 to the declared audio duration.
C20_FallbackSpansDeclared ==
    (dz_pc = "returned" /\ dz_substituted) =>
        /\ SingleSpeaker(dz_result[1])
        /\ dz_result[1].segments[1].end_time = dz_audio_duration

\* C20, amended: the segment of the fallback runs from 0.0 to the declared
\* duration when that is at least 1 s, and to 1.0 s when it is below 1 s or
\* not positive.
C20_FallbackSpansValid ==
    (dz_pc = "returned" /\ dz_substituted) =>
        /\ SingleSpeaker(dz_result[1])
        /\ dz_result[1].segments[1].end_time =
               (IF dz_audio_duration >= 1000 THEN dz_audio_duration ELSE 1000)
        /\ dz_result[1].audio_duration = dz_result[1].segments[1].end_time

\* the result for a file of 0.5 s failed validation and the fallback spans 1 s
C20_Witness ==
    /\ dz_pc = "returned"
    /\ dz_substituted
    /\ dz_errors = {"validation"}
    /\ dz_audio_duration = 500
    /\ dz_result[1].segments[1].end_time = 1000

----------------------------------------------------------------------------
----------------------------------------------------------------------------
\* the syllables in order, as one text
RECURSIVE Flatten(_)
Flatten(syllables) ==
    IF syllables = <<>> THEN <<>> ELSE Head(syllables) \o Flatten(Tail(syllables))

\* the index of the syllable that holds the p-th character of the word
RECURSIVE SyllableAt(_, _)
SyllableAt(syllables, p) ==
    IF syllables = <<>> THEN 0
    ELSE IF p <= Len(Head(syllables)) THEN 1
    ELSE LET rest == SyllableAt(Tail(syllables), p - Len(Head(syllables)))
         IN  IF rest = 0 THEN 0 ELSE 1 + rest

\* the two-letter combinations the specification lists
ListedDiphthongs ==
    { <<"a","i">>, <<"a","u">>, <<"e","i">>, <<"e","u">>,
      <<"i","a">>, <<"i","e">>, <<"i","o">>, <<"i","u">>,
      <<"o","a">>, <<"o","e">>, <<"o","i">>, <<"o","u">>,
      <<"u","a">>, <<"u","e">>, <<"u","i">>, <<"u","o">> }

\* C22: every adjacent two-letter vowel pair from ai, au, ei, eu, ia, ie, io,
\* iu, oa, oe, oi, ou, ua, ue, ui, uo inside a word is kept inside a single
\* syllable and is never split across two syllables.
C22_DiphthongsKept ==
    sy_pc = "returned" =>
        LET text == Strip(Lower(sy_text))
        IN  \A k \in 1..(Len(text) - 1) :
                <<text[k], text[k + 1]>> \in ListedDiphthongs
                    => SyllableAt(sy_syllables[1], k) = SyllableAt(sy_syllables[1], k + 1)

\* C23: the estimator returns an empty list for empty or whitespace-only
\* input and a non-empty list for every other input; when the word has no
\* vowel the result is the single syllable made of the whole word.
C23_EmptyAndFallback ==
    sy_pc = "returned" =>
        LET blank == \A k \in 1..Len(sy_text) : sy_text[k] \in Whitespace
            text  == Strip(Lower(sy_text))
        IN  /\ blank => sy_syllables[1] = <<>>
            /\ ~blank => sy_syllables[1] # <<>>
            /\ (~blank /\ \A k \in 1..Len(text) : text[k] \notin vowels)
                   => sy_syllables[1] = <<text>>

\* "ll" has no vowel and came back as the one syllable "ll"
C23_Witness ==
    /\ sy_pc = "returned"
    /\ sy_text = <<"l", "l">>
    /\ sy_syllables = << << <<"l", "l">> >> >>

\* C27: the estimator returns 2 syllables for "hola", 3 syllables for
\* "español" and exactly ["tal"] for "tal".
C27_KnownWords ==
    sy_pc = "returned" =>
        /\ sy_text = <<"h", "o", "l", "a">> => Len(sy_syllables[1]) = 2
        /\ sy_text = <<"e", "s", "p", "a", "ñ", "o", "l">> => Len(sy_syllables[1]) = 3
        /\ sy_text = <<"t", "a", "l">> => sy_syllables[1] = << <<"t", "a", "l">> >>

\* "español" came back as three syllables
C27_Witness ==
    /\ sy_pc = "returned"
    /\ sy_text = <<"e", "s", "p", "a", "ñ", "o", "l">>
    /\ Len(sy_syllables[1]) = 3

\* C28: for every non-empty word the syllables returned are non-empty
\* strings whose concatenation, in order, is the lowercased and stripped
\* word: no character is dropped, duplicated or reordered.
C28_SyllablesPartitionWord ==
    (sy_pc = "returned" /\ Strip(Lower(sy_text)) # <<>>) =>
        /\ \A j \in 1..Len(sy_syllables[1]) : sy_syllables[1][j] # <<>>
        /\ Flatten(sy_syllables[1]) = Strip(Lower(sy_text))

\* " All" came back as the syllable "all": lowercased, stripped, with the
\* consonant after the coda appended to the last syllable
C28_Witness ==
    /\ sy_pc = "returned"
    /\ sy_text = <<" ", "A", "l", "l">>
    /\ sy_syllables = << << <<"a", "l", "l">> >> >>

----------------------------------------------------------------------------
\* the list mapping [{start: 0, end: 5, speaker_id: 1}, {start: 5, end: 15, speaker_id: 2}]
ScenarioListMapping ==
    ListMapping(<< [start |-> <<0>>, end |-> <<5000>>, speaker_id |-> <<PyInt(1)>>],
                   [start |-> <<5000>>, end |-> <<15000>>, speaker_id |-> <<PyInt(2)>>] >>)

\* the speaker_id returned for the k-th entity, when its midpoint is at `center` ms
ResolvedAt(k, center) ==
    IF sm_given[k].start_time + sm_given[k].end_time = 2 * center
    THEN {sm_heap[sm_updated[k]].speaker_id}
    ELSE {}

\* C26: given the list mapping [{start:0,end:5,speaker_id:1},
\* {start:5,end:15,speaker_id:2}], a word centered at 0.75 resolves to
\* speaker 1 and a word centered at 2.75 resolves to speaker 2.
C26_ScenarioTwoSpeakers ==
    (sm_pc = "returned" /\ sm_mapping = ScenarioListMapping) =>
        \A k \in 1..Len(sm_updated) :
            /\ ResolvedAt(k, 750) \subseteq {PyInt(1)}
            /\ ResolvedAt(k, 2750) \subseteq {PyInt(2)}

\* C26, amended: with that mapping a word centered at 0.75 resolves to
\* speaker 1 and a word centered at 2.75, which lies in the first entry's
\* range, resolves to speaker 1 too.
C26_ScenarioFirstRange ==
    (sm_pc = "returned" /\ sm_mapping = ScenarioListMapping) =>
        \A k \in 1..Len(sm_updated) :
            /\ ResolvedAt(k, 750) \subseteq {PyInt(1)}
            /\ ResolvedAt(k, 2750) \subseteq {PyInt(1)}

\* a word centered at 0.75 and a word centered at 2.75 both came back with speaker 1
C26_Witness ==
    /\ sm_pc = "returned" /\ sm_mapping = ScenarioListMapping
    /\ Len(sm_updated) = 2
    /\ ResolvedAt(1, 750) = {PyInt(1)}
    /\ ResolvedAt(2, 2750) = {PyInt(1)}

\* C29: for the (entities, speaker_map) pair apply_speaker_mapping returns,
\* with no mapping, a list mapping or a dict mapping, the speaker_id of
\* every returned entity is a key of the returned speaker_map.
C29_SpeakerIdsAreKeys ==
    sm_pc = "returned" =>
        \A k \in 1..Len(sm_updated) : sm_heap[sm_updated[k]].speaker_id \in sm_speaker_map

----------------------------------------------------------------------------
\* C24: the quality filter is idempotent: applied with the same
\* configuration to a list that is already its own output, it returns the
\* same entities in the same order, unchanged.
C24_FilterIdempotent ==
    rf_pc = "done" => rf_second = rf_first

\* of an "x" and a "tal" the first call kept the "tal", and the second call kept it again
C24_Witness ==
    /\ rf_pc = "done"
    /\ Len(rf_entities) = 2 /\ Len(rf_first[1]) = 1
    /\ rf_entities[1].text = <<"x">>
    /\ rf_first[1][1] = rf_entities[2]
    /\ rf_second = rf_first

\* C25: creating entities from the hypotheses ("hola",1.0,1.5,0.95),
\* ("que",1.6,1.8,0.4), ("como",1.9,2.3,0.9), ("a",2.4,2.42,0.8),
\* ("extraordinariamente",3.0,7.0,0.8) and filtering with the defaults
\* (min_confidence 0.8, duration in [0.3,3.0], syllables in [2,6]) leaves
\* exactly the entities with texts ["hola","como"], in that order.
C25_ScenarioSurvivors ==
    ( /\ sc_pc = "done"
      /\ sc_words = ScScenario
      /\ sc_config = [min_confidence |-> 80, min_word_duration |-> 300,
                      max_word_duration |-> 3000, syllable_range |-> <<2, 6>>] ) =>
        [k \in 1..Len(sc_filtered[1]) |-> sc_filtered[1][k].text]
            = << <<"h", "o", "l", "a">>, <<"c", "o", "m", "o">> >>

----------------------------------------------------------------------------
\* the instants of the model's time line, every 100 ms
MgInstants == { 100 * n : n \in 0..100 }

Covers(seg, t) == seg.start_time <= t /\ t <= seg.end_time

\* C30: _merge_close_segments, given segments sorted by start_time, never
\* loses covered time: every instant covered by an input segment is covered
\* by an output segment of the same speaker.
C30_MergeKeepsCoverage ==
    mg_pc = "returned" =>
        \A k \in 1..Len(mg_segments) : \A t \in MgInstants :
            Covers(mg_segments[k], t) =>
                \E j \in 1..Len(mg_merged[1]) :
                    /\ mg_merged[1][j].speaker_id = mg_segments[k].speaker_id
                    /\ Covers(mg_merged[1][j], t)

====
